---- MODULE Spec2Model ----
(***************************************************************************)
(* A model of the pyPASreporterGUI tooling:                                *)
(*   - tools/pin_superset.py      (SpecPin, SpecTag)                       *)
(*   - pypasreportergui/runtime.py generate_config (SpecConfig)            *)
(*   - pypasreportergui/runtime.py get_superset_home (SpecHome)            *)
(*   - pypasreportergui/runtime.py frozen mode, commands (SpecRuntime)     *)
(*   - pypasreportergui/cli.py run, init, doctor, add-duckdb (SpecCli)     *)
(*   - tools/build_superset.py main (SpecBuildSuperset)                   *)
(*   - tools/build_wheels.py build_wheel (SpecWheels)                     *)
(*   - scripts/build_all.py main (SpecBuildAll)                           *)
(* Strings are sequences of one-character strings, so that slicing,        *)
(* stripping, splitting and regular-expression matching are computed.      *)
(***************************************************************************)
EXTENDS Integers, Sequences, FiniteSets, TLC

VARIABLES
    \* ---- get_latest_tag (SpecTag) ----
    tagRepo,      \* the tags of the repository (a set of strings)
    tags,         \* get_latest_tag: the list `tags` (stdout, stripped and split)
    tagIdx,       \* get_latest_tag: position of the for loop
    tagPc,        \* get_latest_tag: "start", "loop", "returned", "raised", "idle"
    tagRes,       \* get_latest_tag: the returned tag
    tagErr,       \* get_latest_tag: the message of the raised RuntimeError
    \* ---- generate_config (SpecConfig) ----
    homeExists,   \* home_dir exists
    cfg,          \* content of home_dir/superset_config.py, or AbsentFile
    secretFile,   \* content of home_dir/.secret_key, or AbsentFile
    dirs,         \* what each directory name under home_dir is
    envKey,       \* os.environ.get("SUPERSET_SECRET_KEY")
    cfgLast,      \* the last call of generate_config and how it ended
    cfgCalls,     \* number of calls made
    \* ---- pin_superset.main (SpecPin) ----
    args,         \* the parsed command line
    repo,         \* the checkout at repo_root
    pc,           \* the statement main (or the function it called) is at
    stack,        \* where the functions being run return to
    gitlog,       \* the git commands run that change the checkout
    calls,        \* the functions of the module called so far
    policy,       \* the branches of main's if/elif/else entered
    ref,          \* checkout_ref: ref
    branch,       \* main and update_repo: branch
    label,        \* main: branch_or_tag
    sha,          \* main: sha
    exc,          \* the exception that ended main
    json,         \* VERSION_MATRIX.json
    md,           \* docs/VERSION_MATRIX.md
    rerun,        \* this run follows the rebuild instruction of an earlier one
    \* ---- get_superset_home, ensure_home_dir (SpecHome) ----
    homeEnv,      \* os.environ.get("PYPASREPORTERGUI_HOME")
    userHome,     \* Path.home()
    cwd,          \* the working directory of the process
    links,        \* the symbolic links on disk
    disk,         \* the directories on disk
    homeLast,     \* the last call: which function, its result, what it created
    \* ---- runtime: frozen mode and commands (SpecRuntime, SpecCli) ----
    sysFrozen,    \* getattr(sys, 'frozen', False)
    hasMeipass,   \* hasattr(sys, '_MEIPASS')
    bundle,       \* the directories that exist under <_MEIPASS>/superset
    rt,           \* the Python process and the Superset database
    rtLast,       \* the last top-level call: the function and its arguments
    rtCalls,      \* number of top-level calls made
    \* ---- cli.py: run, init, doctor, add-duckdb (SpecCli) ----
    databases,    \* the Database rows of Superset
    cliLast,      \* the last command: its name, its options, its exit status
    cliCalls,     \* number of commands run
    \* ---- tools/build_superset.py (SpecBuildSuperset) ----
    bsRepoExists, \* superset-src exists
    bsHead,       \* what git rev-parse HEAD prints in superset-src
    bsMatrix,     \* VERSION_MATRIX.json
    bsLast,       \* the last run of main: its options and what it did
    bsCalls,      \* number of runs of main
    \* ---- tools/build_wheels.py (SpecWheels) ----
    whlFs,        \* the directories and the wheel files on disk
    whlLast,      \* the last call of build_wheel: arguments, result
    whlCalls,     \* number of calls of build_wheel
    \* ---- scripts/build_all.py (SpecBuildAll) ----
    baSrcExists,  \* superset-src exists
    baVenv,       \* .venv exists
    baLast,       \* the last run of main: options, exit codes, what it did
    baCalls       \* number of runs of main

tagVars == <<tagRepo, tags, tagIdx, tagPc, tagRes, tagErr>>

cfgVars == <<homeExists, cfg, secretFile, dirs, envKey, cfgLast, cfgCalls>>

pinVars ==
    <<args, repo, pc, stack, gitlog, calls, policy, ref, branch, label, sha,
      exc, json, md, rerun>>

homeVars == <<homeEnv, userHome, cwd, links, disk, homeLast>>

rtVars == <<sysFrozen, hasMeipass, bundle, rt, rtLast, rtCalls>>

cliVars == <<databases, cliLast, cliCalls>>

bsVars == <<bsRepoExists, bsHead, bsMatrix, bsLast, bsCalls>>

whlVars == <<whlFs, whlLast, whlCalls>>

baVars == <<baSrcExists, baVenv, baLast, baCalls>>

vars == <<tagVars, cfgVars, pinVars, homeVars, rtVars, cliVars, bsVars, whlVars, baVars>>

-----------------------------------------------------------------------------
(* Characters and strings *)

Digits == {"0", "1", "2", "3", "4", "5", "6", "7", "8", "9"}

Whitespace == {" ", "\n"}

\* Python None for an optional string argument (never a real string: a real
\* string holds one-character elements only).
NoneStr == <<"<None>">>

\* Python truthiness of an optional string: None and "" are falsy.
Truthy(s) == s # NoneStr /\ s # <<>>

\* s[:n]
Take(s, n) == SubSeq(s, 1, IF Len(s) < n THEN Len(s) ELSE n)

\* str.strip(): drop leading and trailing whitespace.
RECURSIVE StripLeft(_)
StripLeft(s) ==
    IF s # <<>> /\ Head(s) \in Whitespace THEN StripLeft(Tail(s)) ELSE s

RECURSIVE StripRight(_)
StripRight(s) ==
    IF s # <<>> /\ s[Len(s)] \in Whitespace
    THEN StripRight(SubSeq(s, 1, Len(s) - 1))
    ELSE s

Strip(s) == StripRight(StripLeft(s))

\* str.split(sep) for a one-character separator: always at least one part.
RECURSIVE SplitFrom(_, _, _)
SplitFrom(s, sep, cur) ==
    IF s = <<>> THEN <<cur>>
    ELSE IF Head(s) = sep THEN <<cur>> \o SplitFrom(Tail(s), sep, <<>>)
    ELSE SplitFrom(Tail(s), sep, Append(cur, Head(s)))

Split(s, sep) == SplitFrom(s, sep, <<>>)

\* Lines of a command's stdout: each line followed by a newline.
RECURSIVE JoinLines(_)
JoinLines(ls) ==
    IF ls = <<>> THEN <<>> ELSE Head(ls) \o <<"\n">> \o JoinLines(Tail(ls))

-----------------------------------------------------------------------------
(* git tag -l --sort=-v:refname : version order of tag names *)

\* Byte order of the characters used.
Alphabet ==
    <<".", "0", "1", "2", "3", "4", "5", "6", "7", "8", "9",
      "a", "b", "c", "r", "v">>

Ord(c) == CHOOSE i \in 1..Len(Alphabet) : Alphabet[i] = c

DigitVal(c) == Ord(c) - 2

\* Position after the run of digits of s that starts at i (i itself when
\* s[i] is no digit).
RECURSIVE DigitsEnd(_, _)
DigitsEnd(s, i) ==
    IF i <= Len(s) /\ s[i] \in Digits THEN DigitsEnd(s, i + 1) ELSE i

RECURSIVE NumVal(_, _, _)
NumVal(s, i, j) ==
    IF i >= j THEN 0 ELSE NumVal(s, i, j - 1) * 10 + DigitVal(s[j - 1])

\* versioncmp: -1, 0, 1. Runs of digits compare as numbers, other characters
\* by byte, and a proper prefix sorts first.
RECURSIVE VersionCmp(_, _)
VersionCmp(a, b) ==
    IF a = <<>> /\ b = <<>> THEN 0
    ELSE IF a = <<>> THEN -1
    ELSE IF b = <<>> THEN 1
    ELSE IF Head(a) \in Digits /\ Head(b) \in Digits THEN
        LET ea == DigitsEnd(a, 1)
            eb == DigitsEnd(b, 1)
            na == NumVal(a, 1, ea)
            nb == NumVal(b, 1, eb)
        IN  IF na < nb THEN -1
            ELSE IF na > nb THEN 1
            ELSE VersionCmp(SubSeq(a, ea, Len(a)), SubSeq(b, eb, Len(b)))
    ELSE IF Ord(Head(a)) < Ord(Head(b)) THEN -1
    ELSE IF Ord(Head(a)) > Ord(Head(b)) THEN 1
    ELSE VersionCmp(Tail(a), Tail(b))

\* The tags of set T, newest version first.
RECURSIVE SortDesc(_)
SortDesc(T) ==
    IF T = {} THEN <<>>
    ELSE LET m == CHOOSE x \in T : \A y \in T : y = x \/ VersionCmp(y, x) <= 0
         IN  <<m>> \o SortDesc(T \ {m})

\* stdout of `git tag -l --sort=-v:refname`
GitTagList(T) == JoinLines(SortDesc(T))

-----------------------------------------------------------------------------
(* get_latest_tag *)

\* re.compile(r"^\d+\.\d+\.\d+$").match(tag)
SemverMatch_NoEnd(s) ==
    LET a == DigitsEnd(s, 1) IN
    /\ a > 1
    /\ a <= Len(s) /\ s[a] = "."
    /\ LET b == DigitsEnd(s, a + 1) IN
       /\ b > a + 1
       /\ b <= Len(s) /\ s[b] = "."
       /\ LET c == DigitsEnd(s, b + 1) IN
          c > b + 1

SemverMatch(s) ==
    LET a == DigitsEnd(s, 1) IN
    /\ a > 1
    /\ a <= Len(s) /\ s[a] = "."
    /\ LET b == DigitsEnd(s, a + 1) IN
       /\ b > a + 1
       /\ b <= Len(s) /\ s[b] = "."
       /\ LET c == DigitsEnd(s, b + 1) IN
          /\ c > b + 1
          /\ c = Len(s) + 1

NoTagMsg == "No valid release tag found"

TagFrame == UNCHANGED <<cfgVars, pinVars, homeVars, rtVars, cliVars, bsVars, whlVars, baVars>>

\* The tag names the repositories of the model draw from.
TagPool ==
    { <<"1", ".", "2", ".", "3">>,
      <<"2", ".", "0", ".", "0">>,
      <<"1", "0", ".", "0", ".", "1">>,
      <<"v", "3", ".", "0", ".", "0">>,
      <<"4", ".", "0", ".", "0", "r", "c", "1">>,
      <<"1", ".", "2">>,
      <<"1", ".", "2", ".", "3", ".", "4">>,
      <<"2", ".", ".", "0">>,
      <<"a", ".", "b", ".", "c">> }

MaxTags == 3

\* result = git(repo_root, "tag", "-l", "--sort=-v:refname")
\* tags = result.stdout.strip().split("\n")
GLT_List ==
    /\ tagPc = "start"
    /\ tags' = Split(Strip(GitTagList(tagRepo)), "\n")
    /\ tagIdx' = 1
    /\ tagPc' = "loop"
    /\ UNCHANGED <<tagRepo, tagRes, tagErr>>
    /\ TagFrame

\* for tag in tags: tag = tag.strip(); if semver_pattern.match(tag): return tag
GLT_Step ==
    /\ tagPc = "loop"
    /\ tagIdx <= Len(tags)
    /\ LET tag == Strip(tags[tagIdx]) IN
       IF SemverMatch(tag)
       THEN /\ tagRes' = tag
            /\ tagPc' = "returned"
            /\ UNCHANGED tagIdx
       ELSE /\ tagIdx' = tagIdx + 1
            /\ UNCHANGED <<tagRes, tagPc>>
    /\ UNCHANGED <<tagRepo, tags, tagErr>>
    /\ TagFrame

\* raise RuntimeError("No valid release tag found")
GLT_Raise ==
    /\ tagPc = "loop"
    /\ tagIdx > Len(tags)
    /\ tagErr' = NoTagMsg
    /\ tagPc' = "raised"
    /\ UNCHANGED <<tagRepo, tags, tagIdx, tagRes>>
    /\ TagFrame

TagInit ==
    /\ tagRepo \in {T \in SUBSET TagPool : Cardinality(T) <= MaxTags}
    /\ tags = <<>>
    /\ tagIdx = 0
    /\ tagPc = "start"
    /\ tagRes = <<>>
    /\ tagErr = ""

TagIdle ==
    /\ tagRepo = {}
    /\ tags = <<>>
    /\ tagIdx = 0
    /\ tagPc = "idle"
    /\ tagRes = <<>>
    /\ tagErr = ""

TagNext == GLT_List \/ GLT_Step \/ GLT_Raise

-----------------------------------------------------------------------------
(* runtime.generate_config *)

\* A path of the file system that does not exist.
AbsentFile == <<"<absent>">>

\* The directories the generated configuration refers to, in the order
\* generate_config creates them.
DirNames ==
    <<"cache", "data_cache", "filter_cache", "explore_cache", "uploads", "logs">>

DirSet == {DirNames[i] : i \in 1..Len(DirNames)}

\* secrets.token_hex(32): the values a fresh key is drawn from.
FreshKeys == {<<"f", "1">>, <<"f", "2">>}

\* The first line of the generated file, a literal of the template.
ConfigHeader == "# pyPASreporterGUI Superset Configuration"

\* config_content: the template, with the values interpolated into it.
ConfigContent(secret_key) ==
    <<ConfigHeader, "SECRET_KEY", secret_key,
      "SQLALCHEMY_DATABASE_URI", "sqlite:///{home_dir_str}/superset.db">>

\* What the test writes over the generated file.
ModifiedContent == <<"# modified">>

\* The secret key generate_config uses: the environment's, else the key
\* file's (stripped), else a fresh one.
SecretKey(fresh) ==
    IF Truthy(envKey) THEN envKey
    ELSE IF secretFile # AbsentFile THEN Strip(secretFile)
    ELSE fresh

\* (home_dir / name).mkdir(exist_ok=True) for the names in order: the state of
\* the directories after the calls, which stop at the first name that exists
\* as a regular file (FileExistsError).
RECURSIVE MkDirsFrom(_, _)
MkDirsFrom(d, i) ==
    IF i > Len(DirNames) THEN d
    ELSE IF d[DirNames[i]] = "file" THEN d
    ELSE MkDirsFrom([d EXCEPT ![DirNames[i]] = "dir"], i + 1)

MkDirs_None(d) == d

MkDirs(d) == MkDirsFrom(d, 1)

MkDirsRaises(d) == \E n \in DirSet : MkDirs(d)[n] = "file"

\* if config_path.exists() and not force: return config_path
EarlyReturn_Never(force) == FALSE

EarlyReturn_Always(force) == cfg # AbsentFile

EarlyReturn(force) == cfg # AbsentFile /\ ~force

MaxCalls == 2

CfgFrame == UNCHANGED <<tagVars, pinVars, homeVars, rtVars, cliVars, bsVars, whlVars, baVars>>

\* generate_config(home_dir, force)
GenerateConfig(force) ==
    /\ cfgCalls < MaxCalls
    /\ cfgCalls' = cfgCalls + 1
    /\ UNCHANGED <<homeExists, envKey>>
    /\ IF EarlyReturn(force)
       THEN /\ cfgLast' = [force |-> force, existed |-> TRUE,
                           result |-> "returned", wrote |-> FALSE]
            /\ UNCHANGED <<cfg, secretFile, dirs>>
       ELSE IF ~homeExists
       THEN \* write_text: FileNotFoundError, nothing was written
            /\ cfgLast' = [force |-> force, existed |-> cfg # AbsentFile,
                           result |-> "raised", wrote |-> FALSE]
            /\ UNCHANGED <<cfg, secretFile, dirs>>
       ELSE \E fresh \in FreshKeys :
            /\ secretFile' =
                   IF ~Truthy(envKey) /\ secretFile = AbsentFile
                   THEN fresh ELSE secretFile
            /\ cfg' = ConfigContent(SecretKey(fresh))
            /\ dirs' = MkDirs(dirs)
            /\ cfgLast' = [force |-> force, existed |-> cfg # AbsentFile,
                           result |-> IF MkDirsRaises(dirs)
                                      THEN "raised" ELSE "returned",
                           wrote |-> TRUE]
    /\ CfgFrame

GenerateConfigDefault == GenerateConfig(FALSE)

GenerateConfigForce == GenerateConfig(TRUE)

\* tests/test_core.py: config_path.write_text("# modified")
UserEdit ==
    /\ homeExists
    /\ cfg # ModifiedContent
    /\ cfgLast.result = "returned"
    /\ cfg' = ModifiedContent
    /\ cfgLast' = [cfgLast EXCEPT !.result = "edited"]
    /\ UNCHANGED <<homeExists, secretFile, dirs, envKey, cfgCalls>>
    /\ CfgFrame

\* The states of home_dir a call can find: the directory missing; or present
\* with any of the files and directories, at most one directory name taken by
\* a regular file.
CfgInit ==
    /\ homeExists \in BOOLEAN
    /\ envKey \in {NoneStr, <<>>, <<"e", "1">>}
    /\ cfg \in {AbsentFile, ModifiedContent, ConfigContent(<<"k", "1">>)}
    /\ secretFile \in {AbsentFile, <<"k", "1">>, <<"k", "1", "\n">>, <<"\n">>}
    /\ dirs \in [DirSet -> {"absent", "dir", "file"}]
    /\ Cardinality({n \in DirSet : dirs[n] = "file"}) <= 1
    /\ ~homeExists =>
          /\ cfg = AbsentFile
          /\ secretFile = AbsentFile
          /\ \A n \in DirSet : dirs[n] = "absent"
    /\ cfgLast = [force |-> FALSE, existed |-> FALSE,
                  result |-> "none", wrote |-> FALSE]
    /\ cfgCalls = 0

CfgIdle ==
    /\ homeExists = FALSE
    /\ envKey = NoneStr
    /\ cfg = AbsentFile
    /\ secretFile = AbsentFile
    /\ dirs = [n \in DirSet |-> "absent"]
    /\ cfgLast = [force |-> FALSE, existed |-> FALSE,
                  result |-> "none", wrote |-> FALSE]
    /\ cfgCalls = 0

CfgNext == GenerateConfigDefault \/ GenerateConfigForce \/ UserEdit

-----------------------------------------------------------------------------
(* tools/pin_superset.py: the repository and the git commands *)

\* The commits of the remote history, oldest first: 1..NCommits.
NCommits == 3

Commits == 1..NCommits

\* Length of a full object name, of the abbreviation git prints, and the
\* shortest prefix git resolves.
ShaLen == 14

AbbrevLen == 7

MinAbbrev == 4

\* The full object name of commit c (distinct commits differ in every place).
ShaOf(c) == [i \in 1..ShaLen |-> Alphabet[2 + ((c * 5 + i * 3) % 13)]]

Main == <<"m", "a", "i", "n">>

Dev == <<"d", "e", "v">>

Branches == {Main, Dev}

Detached == <<"<detached>">>

\* The remote: its branches, the branch its HEAD names, and its tags.
RemoteTip(b) == IF b = Main THEN NCommits ELSE NCommits - 1

RemoteHead == Main

RemoteTags ==
    { <<"1", ".", "2", ".", "3">>,
      <<"2", ".", "0", ".", "0">>,
      <<"4", ".", "0", ".", "0", "r", "c", "1">> }

TagCommit(t) ==
    IF t = <<"1", ".", "2", ".", "3">> THEN 1
    ELSE IF t = <<"2", ".", "0", ".", "0">> THEN 2
    ELSE NCommits

\* A ref that names nothing, locally or remotely.
BogusRef == <<"n", "o", "n", "e">>

IsPrefix(p, s) == Len(p) <= Len(s) /\ SubSeq(s, 1, Len(p)) = p

\* The commit a refname names in repository r (0 when it names none): a local
\* branch, else a remote-tracking branch of that name, else a tag, else an
\* object name or an unambiguous prefix of one.
Resolve(r, refname) ==
    IF refname \in Branches
    THEN IF r.local[refname] # 0 THEN r.local[refname] ELSE r.origin[refname]
    ELSE IF refname \in r.tags THEN TagCommit(refname)
    ELSE IF Len(refname) >= MinAbbrev
            /\ Cardinality({c \in r.objs : IsPrefix(refname, ShaOf(c))}) = 1
    THEN CHOOSE c \in r.objs : IsPrefix(refname, ShaOf(c))
    ELSE 0

\* The commit a refname names on the remote (0 when it names none).
RemoteResolve(refname) ==
    IF refname \in Branches THEN RemoteTip(refname)
    ELSE IF refname \in RemoteTags THEN TagCommit(refname)
    ELSE IF \E c \in Commits : refname = ShaOf(c)
    THEN CHOOSE c \in Commits : refname = ShaOf(c)
    ELSE 0

MaxOf(S) == CHOOSE x \in S : \A y \in S : y <= x

MinOf(S) == CHOOSE x \in S : \A y \in S : x <= y

\* git rev-parse --is-shallow-repository
IsShallow_Never(r) == FALSE

IsShallow(r) == r.shallow

\* A successful fetch of every branch and tag of origin. A shallow repository
\* stays shallow: it gains the commits newer than its own and the tagged ones.
DoFetchAll(r) ==
    [r EXCEPT !.origin = [b \in Branches |-> RemoteTip(b)],
              !.tags = RemoteTags,
              !.objs = IF r.shallow
                       THEN r.objs \cup {c \in Commits : c > MinOf(r.objs)}
                                   \cup {TagCommit(t) : t \in RemoteTags}
                       ELSE Commits]

\* A successful fetch --unshallow (or fetch --depth 1000000): the whole
\* history, and the repository is no longer shallow.
DoUnshallow(r) ==
    [r EXCEPT !.origin = [b \in Branches |-> RemoteTip(b)],
              !.tags = RemoteTags,
              !.objs = Commits,
              !.shallow = FALSE]

\* A successful git fetch origin <refname>.
DoFetchRef(r, refname) ==
    [r EXCEPT !.objs = r.objs \cup {RemoteResolve(refname)},
              !.tags = IF refname \in RemoteTags THEN r.tags \cup {refname} ELSE r.tags]

\* git checkout <refname> succeeds exactly when the refname names a commit.
CanCheckout(r, refname) == Resolve(r, refname) # 0

DoCheckout(r, refname) ==
    [r EXCEPT !.head = Resolve(r, refname),
              !.cur = IF refname \in Branches THEN refname ELSE Detached,
              !.local = IF refname \in Branches
                        THEN [r.local EXCEPT ![refname] = Resolve(r, refname)]
                        ELSE r.local]

\* git checkout -B <branch> origin/<branch>
CanCheckoutB(r, b) == b \in Branches /\ r.origin[b] # 0

DoCheckoutB(r, b) ==
    [r EXCEPT !.head = r.origin[b],
              !.cur = b,
              !.local = [r.local EXCEPT ![b] = r.origin[b]]]

\* A successful git pull --ff-only on the current branch.
DoPull(r) ==
    LET f == DoFetchAll(r) IN
    [f EXCEPT !.head = RemoteTip(r.cur),
              !.local = [r.local EXCEPT ![r.cur] = RemoteTip(r.cur)],
              !.objs = f.objs \cup {RemoteTip(r.cur)}]

\* git clone --depth 100
CloneDepth == 100

DoClone ==
    [exists |-> TRUE,
     objs |-> {c \in Commits : c > NCommits - CloneDepth},
     shallow |-> NCommits > CloneDepth,
     tags |-> {t \in RemoteTags : TagCommit(t) > NCommits - CloneDepth},
     origin |-> [b \in Branches |-> IF b = RemoteHead THEN RemoteTip(b) ELSE 0],
     originHead |-> RemoteHead,
     local |-> [b \in Branches |-> IF b = RemoteHead THEN RemoteTip(b) ELSE 0],
     head |-> RemoteTip(RemoteHead),
     cur |-> RemoteHead]

NoRepo ==
    [exists |-> FALSE, objs |-> {}, shallow |-> FALSE, tags |-> {},
     origin |-> [b \in Branches |-> 0], originHead |-> NoneStr,
     local |-> [b \in Branches |-> 0], head |-> 0, cur |-> Detached]

\* An existing checkout holding commits lo..hi, with main at m (0: no local
\* branch main, HEAD detached at hi).
Checkout(lo, hi, m, hasHead, someTags) ==
    [exists |-> TRUE,
     objs |-> lo..hi,
     shallow |-> lo > 1,
     tags |-> IF someTags
              THEN {t \in RemoteTags : TagCommit(t) \in lo..hi} ELSE {},
     origin |-> [b \in Branches |->
                    IF b = Main THEN hi
                    ELSE IF RemoteTip(b) \in lo..hi THEN RemoteTip(b) ELSE 0],
     originHead |-> IF hasHead THEN RemoteHead ELSE NoneStr,
     local |-> [b \in Branches |-> IF b = Main THEN m ELSE 0],
     head |-> IF m # 0 THEN m ELSE hi,
     cur |-> IF m # 0 THEN Main ELSE Detached]

-----------------------------------------------------------------------------
(* tools/pin_superset.py: main and the functions it calls *)

PinFrame == UNCHANGED <<cfgVars, homeVars, rtVars, cliVars, bsVars, whlVars, baVars>>

NoExc == [type |-> "", msg |-> "", ref |-> NoneStr]

NoJson == [written |-> FALSE, superset_sha |-> <<>>, superset_branch |-> <<>>]

NoMd ==
    [written |-> FALSE, sha_cell |-> <<>>, branch_cell |-> <<>>,
     rebuild_sha |-> <<>>]

Git(cmd, ok) == gitlog' = Append(gitlog, [cmd |-> cmd, ok |-> ok])

Call(target, ret) == pc' = target /\ stack' = <<ret>> \o stack

Return == pc' = Head(stack) /\ stack' = Tail(stack)

Raise(type, msg, r) ==
    /\ pc' = "raised"
    /\ exc' = [type |-> type, msg |-> msg, ref |-> r]
    /\ UNCHANGED stack

\* ensure_repo(repo_root, repo_url)
EnsureRepo ==
    /\ pc = "m_ensure_repo"
    /\ calls' = calls \cup {"ensure_repo"}
    /\ IF repo.exists
       THEN /\ pc' = "m_policy"
            /\ UNCHANGED <<repo, gitlog, exc>>
       ELSE \E ok \in BOOLEAN :
            /\ Git("clone", ok)
            /\ IF ok
               THEN /\ repo' = DoClone
                    /\ pc' = "m_policy"
                    /\ UNCHANGED exc
               ELSE /\ Raise("CalledProcessError", "clone", NoneStr)
                    /\ UNCHANGED repo
    /\ UNCHANGED <<args, stack, ref, branch, label, sha, json, md, policy,
                   rerun, tagVars>>
    /\ PinFrame

\* if args.sha: ... elif args.latest_tag: ... else: ...
PolicyOf_TagFirst(a) ==
    IF a.latest_tag THEN "latest_tag"
    ELSE IF Truthy(a.sha) THEN "sha"
    ELSE "branch"

PolicyOf(a) ==
    IF Truthy(a.sha) THEN "sha"
    ELSE IF a.latest_tag THEN "latest_tag"
    ELSE "branch"

M_Policy ==
    /\ pc = "m_policy"
    /\ policy' = Append(policy, PolicyOf(args))
    /\ pc' = CASE PolicyOf(args) = "sha" -> "m_sha_fetch"
               [] PolicyOf(args) = "latest_tag" -> "m_tag_fetch"
               [] OTHER -> "m_branch"
    /\ UNCHANGED <<args, stack, repo, gitlog, calls, ref, branch, label, sha,
                   exc, json, md, rerun, tagVars>>
    /\ PinFrame

\* git(repo_root, "fetch", "--all", "--tags", "--prune", check=False)
\* followed by ensure_full_history(repo_root), at the three places of the
\* code: main (sha), main (latest tag), update_repo and checkout_ref.
FetchAllThen(at, ret) ==
    /\ pc = at
    /\ \E ok \in BOOLEAN :
       /\ Git("fetch_all", ok)
       /\ repo' = IF ok THEN DoFetchAll(repo) ELSE repo
    /\ Call("efh_check", ret)
    /\ UNCHANGED <<args, ref, branch, label, sha, exc, json, md, policy,
                   rerun, tagVars>>
    /\ PinFrame

M_ShaFetch ==
    /\ FetchAllThen("m_sha_fetch", "m_sha_checkout")
    /\ UNCHANGED calls

M_TagFetch ==
    /\ FetchAllThen("m_tag_fetch", "m_tag_get")
    /\ UNCHANGED calls

\* ensure_full_history: if not is_shallow_repo(repo_root): return
EFH_Check ==
    /\ pc = "efh_check"
    /\ calls' = calls \cup {"ensure_full_history"}
    /\ IF ~IsShallow(repo)
       THEN Return
       ELSE pc' = "efh_unshallow" /\ UNCHANGED stack
    /\ UNCHANGED <<args, repo, gitlog, ref, branch, label, sha, exc, json, md,
                   policy, rerun, tagVars>>
    /\ PinFrame

\* git(repo_root, "fetch", "--unshallow", "--tags", "--prune", check=False)
\* if is_shallow_repo(repo_root): (the deep fetch) -- else return
EFH_Unshallow ==
    /\ pc = "efh_unshallow"
    /\ \E ok \in BOOLEAN :
       /\ Git("fetch_unshallow", ok)
       /\ repo' = IF ok THEN DoUnshallow(repo) ELSE repo
    /\ IF IsShallow(repo')
       THEN pc' = "efh_deep" /\ UNCHANGED stack
       ELSE Return
    /\ UNCHANGED <<args, calls, ref, branch, label, sha, exc, json, md,
                   policy, rerun, tagVars>>
    /\ PinFrame

\* git(repo_root, "fetch", "--depth", "1000000", "--tags", "--prune",
\*     check=False)
EFH_Deep ==
    /\ pc = "efh_deep"
    /\ \E ok \in BOOLEAN :
       /\ Git("fetch_deep", ok)
       /\ repo' = IF ok THEN DoUnshallow(repo) ELSE repo
    /\ Return
    /\ UNCHANGED <<args, calls, ref, branch, label, sha, exc, json, md,
                   policy, rerun, tagVars>>
    /\ PinFrame

\* get_latest_tag(repo_root), called by main: the function runs as GLT_List,
\* GLT_Step and GLT_Raise on the tags of the checkout.
M_TagGet ==
    /\ pc = "m_tag_get"
    /\ calls' = calls \cup {"get_latest_tag"}
    /\ tagRepo' = repo.tags
    /\ tagPc' = "start"
    /\ pc' = "m_tag_wait"
    /\ UNCHANGED <<tags, tagIdx, tagRes, tagErr>>
    /\ UNCHANGED <<args, stack, repo, gitlog, ref, branch, label, sha, exc,
                   json, md, policy, rerun>>
    /\ PinFrame

\* tag = get_latest_tag(repo_root); checkout_ref(repo_root, tag)
M_TagReturned ==
    /\ pc = "m_tag_wait"
    /\ tagPc = "returned"
    /\ ref' = tagRes
    /\ Call("cr_first", "m_tag_label")
    /\ UNCHANGED <<args, repo, gitlog, calls, branch, label, sha, exc, json,
                   md, policy, rerun, tagVars>>
    /\ PinFrame

\* get_latest_tag raised: main does not catch it.
M_TagRaised ==
    /\ pc = "m_tag_wait"
    /\ tagPc = "raised"
    /\ Raise("RuntimeError", tagErr, NoneStr)
    /\ UNCHANGED <<args, repo, gitlog, calls, ref, branch, label, sha, json,
                   md, policy, rerun, tagVars>>
    /\ PinFrame

\* branch_or_tag = tag
M_TagLabel ==
    /\ pc = "m_tag_label"
    /\ label' = tagRes
    /\ pc' = "m_record"
    /\ UNCHANGED <<args, stack, repo, gitlog, calls, ref, branch, sha, exc,
                   json, md, policy, rerun, tagVars>>
    /\ PinFrame

\* checkout_ref(repo_root, args.sha)
M_ShaCheckout ==
    /\ pc = "m_sha_checkout"
    /\ ref' = args.sha
    /\ Call("cr_first", "m_sha_label")
    /\ UNCHANGED <<args, repo, gitlog, calls, branch, label, sha, exc, json,
                   md, policy, rerun, tagVars>>
    /\ PinFrame

\* branch_or_tag = args.sha[:12]
LabelLen == 12

ShaLabel(s) == Take(s, LabelLen)

M_ShaLabel ==
    /\ pc = "m_sha_label"
    /\ label' = ShaLabel(args.sha)
    /\ pc' = "m_record"
    /\ UNCHANGED <<args, stack, repo, gitlog, calls, ref, branch, sha, exc,
                   json, md, policy, rerun, tagVars>>
    /\ PinFrame

\* checkout_ref: r = git(repo_root, "checkout", ref, check=False)
\*               if r.returncode == 0: return
CR_First ==
    /\ pc = "cr_first"
    /\ calls' = calls \cup {"checkout_ref"}
    /\ Git("checkout", CanCheckout(repo, ref))
    /\ IF CanCheckout(repo, ref)
       THEN /\ repo' = DoCheckout(repo, ref)
            /\ Return
       ELSE /\ pc' = "cr_fetch_all"
            /\ UNCHANGED <<repo, stack>>
    /\ UNCHANGED <<args, ref, branch, label, sha, exc, json, md, policy,
                   rerun, tagVars>>
    /\ PinFrame

\* checkout_ref: fetch --all --tags --prune; ensure_full_history(repo_root)
CR_FetchAll ==
    /\ FetchAllThen("cr_fetch_all", "cr_fetch_ref")
    /\ UNCHANGED calls

\* checkout_ref: git(repo_root, "fetch", "origin", ref, check=False)
CR_FetchRef ==
    /\ pc = "cr_fetch_ref"
    /\ \E ok \in (IF RemoteResolve(ref) # 0 THEN BOOLEAN ELSE {FALSE}) :
       /\ Git("fetch_ref", ok)
       /\ repo' = IF ok THEN DoFetchRef(repo, ref) ELSE repo
    /\ pc' = "cr_second"
    /\ UNCHANGED <<args, stack, calls, ref, branch, label, sha, exc, json, md,
                   policy, rerun, tagVars>>
    /\ PinFrame

\* checkout_ref: r2 = git(repo_root, "checkout", ref, check=False)
\*               if r2.returncode != 0: raise RuntimeError(msg)
CR_Second_NoRaise ==
    /\ pc = "cr_second"
    /\ Git("checkout", CanCheckout(repo, ref))
    /\ repo' = IF CanCheckout(repo, ref) THEN DoCheckout(repo, ref) ELSE repo
    /\ Return
    /\ UNCHANGED exc
    /\ UNCHANGED <<args, calls, ref, branch, label, sha, json, md, policy,
                   rerun, tagVars>>
    /\ PinFrame

CR_Second ==
    /\ pc = "cr_second"
    /\ Git("checkout", CanCheckout(repo, ref))
    /\ IF CanCheckout(repo, ref)
       THEN /\ repo' = DoCheckout(repo, ref)
            /\ Return
            /\ UNCHANGED exc
       ELSE /\ Raise("RuntimeError", "Failed to checkout ref", ref)
            /\ UNCHANGED repo
    /\ UNCHANGED <<args, calls, ref, branch, label, sha, json, md, policy,
                   rerun, tagVars>>
    /\ PinFrame

\* get_default_branch: stdout of git symbolic-ref refs/remotes/origin/HEAD
SymbolicRefStdout(r) ==
    <<"r", "e", "f", "s", "/", "r", "e", "m", "o", "t", "e", "s", "/",
      "o", "r", "i", "g", "i", "n", "/">> \o r.originHead \o <<"\n">>

\* get_default_branch: the candidates tried with show-ref, in order.
Candidates ==
    << <<"m", "a", "i", "n">>, <<"m", "a", "s", "t", "e", "r">>,
       <<"n", "e", "x", "t">> >>

\* git show-ref --verify refs/remotes/origin/<candidate>
ShowRef(r, b) == b \in Branches /\ r.origin[b] # 0

\* get_default_branch(repo_root): the branch, or NoneStr when it raises.
GetDefaultBranch(r) ==
    IF r.originHead # NoneStr /\ Strip(SymbolicRefStdout(r)) # <<>>
    THEN LET parts == Split(Strip(SymbolicRefStdout(r)), "/")
         IN  parts[Len(parts)]
    ELSE IF \E i \in 1..Len(Candidates) : ShowRef(r, Candidates[i])
    THEN Candidates[MinOf({i \in 1..Len(Candidates) : ShowRef(r, Candidates[i])})]
    ELSE NoneStr

\* branch = args.branch or get_default_branch(repo_root)
\* update_repo(repo_root, branch)
M_Branch ==
    /\ pc = "m_branch"
    /\ IF Truthy(args.branch)
       THEN /\ branch' = args.branch
            /\ calls' = calls \cup {"update_repo"}
            /\ pc' = "ur_fetch"
            /\ UNCHANGED <<exc, stack>>
       ELSE IF GetDefaultBranch(repo) # NoneStr
       THEN /\ branch' = GetDefaultBranch(repo)
            /\ calls' = calls \cup {"get_default_branch", "update_repo"}
            /\ pc' = "ur_fetch"
            /\ UNCHANGED <<exc, stack>>
       ELSE /\ calls' = calls \cup {"get_default_branch"}
            /\ Raise("RuntimeError", "Unable to determine default branch",
                     NoneStr)
            /\ UNCHANGED branch
    /\ UNCHANGED <<args, repo, gitlog, ref, label, sha, json, md, policy,
                   rerun, tagVars>>
    /\ PinFrame

\* update_repo: fetch --all --tags --prune; ensure_full_history(repo_root)
UR_Fetch ==
    /\ FetchAllThen("ur_fetch", "ur_checkout")
    /\ UNCHANGED calls

\* update_repo: r = git(repo_root, "checkout", branch, check=False)
UR_Checkout ==
    /\ pc = "ur_checkout"
    /\ Git("checkout", CanCheckout(repo, branch))
    /\ IF CanCheckout(repo, branch)
       THEN /\ repo' = DoCheckout(repo, branch)
            /\ pc' = "ur_pull"
       ELSE /\ pc' = "ur_checkout_b"
            /\ UNCHANGED repo
    /\ UNCHANGED <<args, stack, calls, ref, branch, label, sha, exc, json, md,
                   policy, rerun, tagVars>>
    /\ PinFrame

\* update_repo: git checkout -B <branch> origin/<branch>, check=True
UR_CheckoutB ==
    /\ pc = "ur_checkout_b"
    /\ Git("checkout_B", CanCheckoutB(repo, branch))
    /\ IF CanCheckoutB(repo, branch)
       THEN /\ repo' = DoCheckoutB(repo, branch)
            /\ pc' = "ur_pull"
            /\ UNCHANGED <<exc, stack>>
       ELSE /\ Raise("CalledProcessError", "checkout -B", NoneStr)
            /\ UNCHANGED repo
    /\ UNCHANGED <<args, calls, ref, branch, label, sha, json, md, policy,
                   rerun, tagVars>>
    /\ PinFrame

\* update_repo: git(repo_root, "pull", "--ff-only", check=False)
UR_Pull ==
    /\ pc = "ur_pull"
    /\ \E ok \in (IF repo.cur \in Branches THEN BOOLEAN ELSE {FALSE}) :
       /\ Git("pull", ok)
       /\ repo' = IF ok THEN DoPull(repo) ELSE repo
    /\ pc' = "m_branch_label"
    /\ UNCHANGED <<args, stack, calls, ref, branch, label, sha, exc, json, md,
                   policy, rerun, tagVars>>
    /\ PinFrame

\* branch_or_tag = branch
M_BranchLabel ==
    /\ pc = "m_branch_label"
    /\ label' = branch
    /\ pc' = "m_record"
    /\ UNCHANGED <<args, stack, repo, gitlog, calls, ref, branch, sha, exc,
                   json, md, policy, rerun, tagVars>>
    /\ PinFrame

\* get_head_sha(repo_root): git rev-parse HEAD, stripped
GetHeadSha(r) == Strip(ShaOf(r.head) \o <<"\n">>)

\* sha = get_head_sha(repo_root)
M_Record_Stale ==
    /\ pc = "m_record"
    /\ sha' = ShaOf(MinOf(repo.objs))
    /\ pc' = IF args.write_version THEN "m_write" ELSE "done"
    /\ UNCHANGED <<args, stack, repo, gitlog, calls, ref, branch, label, exc,
                   json, md, policy, rerun, tagVars>>
    /\ PinFrame

M_Record ==
    /\ pc = "m_record"
    /\ sha' = GetHeadSha(repo)
    /\ pc' = IF args.write_version THEN "m_write" ELSE "done"
    /\ UNCHANGED <<args, stack, repo, gitlog, calls, ref, branch, label, exc,
                   json, md, policy, rerun, tagVars>>
    /\ PinFrame

\* write_version_matrix: the table shows data["superset_sha"][:12]
ShaCellLen == 12

\* write_version_matrix: docs/VERSION_MATRIX.md
MdOf_ShortRebuild(data) ==
    [written |-> TRUE,
     sha_cell |-> Take(data.superset_sha, ShaCellLen),
     branch_cell |-> data.superset_branch,
     rebuild_sha |-> Take(data.superset_sha, ShaCellLen)]

MdOf(data) ==
    [written |-> TRUE,
     sha_cell |-> Take(data.superset_sha, ShaCellLen),
     branch_cell |-> data.superset_branch,
     rebuild_sha |-> data.superset_sha]

\* write_version_matrix: VERSION_MATRIX.json
JsonOf(data) ==
    [written |-> TRUE,
     superset_sha |-> data.superset_sha,
     superset_branch |-> data.superset_branch]

\* if args.write_version: data = {...}; write_version_matrix(base_dir, data)
M_Write ==
    /\ pc = "m_write"
    /\ calls' = calls \cup {"write_version_matrix"}
    /\ LET data == [superset_sha |-> sha, superset_branch |-> label] IN
       /\ json' = JsonOf(data)
       /\ md' = MdOf(data)
    /\ pc' = "done"
    /\ UNCHANGED <<args, stack, repo, gitlog, ref, branch, label, sha, exc,
                   policy, rerun, tagVars>>
    /\ PinFrame

\* The rebuild instruction of docs/VERSION_MATRIX.md, followed later:
\*   python tools/pin_superset.py --sha <superset_sha>
\* on the same checkout, or on a fresh shallow checkout of the newest commit.
Rerun ==
    /\ pc = "done"
    /\ ~rerun
    /\ md.written
    /\ rerun' = TRUE
    /\ \E w \in BOOLEAN :
       args' = [sha |-> md.rebuild_sha, latest_tag |-> FALSE,
                branch |-> NoneStr, scan_limit |-> args.scan_limit,
                write_version |-> w]
    /\ repo' \in {repo, Checkout(NCommits, NCommits, 0, FALSE, FALSE)}
    /\ pc' = "m_ensure_repo"
    /\ stack' = <<>>
    /\ gitlog' = <<>>
    /\ calls' = {}
    /\ policy' = <<>>
    /\ ref' = NoneStr
    /\ branch' = NoneStr
    /\ label' = NoneStr
    /\ sha' = NoneStr
    /\ exc' = NoExc
    /\ tagRepo' = {}
    /\ tags' = <<>>
    /\ tagIdx' = 0
    /\ tagPc' = "idle"
    /\ tagRes' = <<>>
    /\ tagErr' = ""
    /\ UNCHANGED <<json, md>>
    /\ PinFrame

MaxScanLimit == 2

\* The values of --sha: absent, empty, full object names, an abbreviation, a
\* tag name, and a ref that names nothing.
ShaArgs ==
    {NoneStr, <<>>, ShaOf(1), ShaOf(NCommits), Take(ShaOf(2), AbbrevLen),
     <<"2", ".", "0", ".", "0">>, BogusRef}

ArgSets ==
    [sha : ShaArgs, latest_tag : BOOLEAN, branch : {NoneStr, Main, Dev},
     scan_limit : 1..MaxScanLimit, write_version : BOOLEAN]

\* The checkouts main can find: none, or one holding the commits lo..hi.
RepoStates ==
    {NoRepo} \cup
    {Checkout(lo, hi, m, h, t) :
        lo \in Commits, hi \in Commits, m \in 0..NCommits,
        h \in BOOLEAN, t \in BOOLEAN}

WellFormedRepo(r) ==
    /\ r.objs # {}
    /\ r.head \in r.objs
    /\ \A b \in Branches : r.local[b] \in r.objs \cup {0}

PinInit ==
    /\ args \in ArgSets
    /\ repo \in {r \in RepoStates : ~r.exists \/ WellFormedRepo(r)}
    /\ pc = "m_ensure_repo"
    /\ stack = <<>>
    /\ gitlog = <<>>
    /\ calls = {}
    /\ policy = <<>>
    /\ ref = NoneStr
    /\ branch = NoneStr
    /\ label = NoneStr
    /\ sha = NoneStr
    /\ exc = NoExc
    /\ json = NoJson
    /\ md = NoMd
    /\ rerun = FALSE

PinIdle ==
    /\ args = [sha |-> NoneStr, latest_tag |-> FALSE, branch |-> NoneStr,
               scan_limit |-> 1, write_version |-> FALSE]
    /\ repo = NoRepo
    /\ pc = "idle"
    /\ stack = <<>>
    /\ gitlog = <<>>
    /\ calls = {}
    /\ policy = <<>>
    /\ ref = NoneStr
    /\ branch = NoneStr
    /\ label = NoneStr
    /\ sha = NoneStr
    /\ exc = NoExc
    /\ json = NoJson
    /\ md = NoMd
    /\ rerun = FALSE

PinNext ==
    \/ EnsureRepo \/ M_Policy
    \/ M_ShaFetch \/ M_ShaCheckout \/ M_ShaLabel
    \/ M_TagFetch \/ M_TagGet \/ GLT_List \/ GLT_Step \/ GLT_Raise
    \/ M_TagReturned \/ M_TagRaised \/ M_TagLabel
    \/ M_Branch \/ UR_Fetch \/ UR_Checkout \/ UR_CheckoutB \/ UR_Pull
    \/ M_BranchLabel
    \/ EFH_Check \/ EFH_Unshallow \/ EFH_Deep
    \/ CR_First \/ CR_FetchAll \/ CR_FetchRef \/ CR_Second
    \/ M_Record \/ M_Write \/ Rerun

-----------------------------------------------------------------------------
(* runtime.get_superset_home and runtime.ensure_home_dir *)

\* A path is the tuple pathlib calls `parts`: its components in order, the
\* first one being the root when the path is absolute.
Root == <<"/">>

Tilde == <<"~">>

Dot == <<".">>

DotDot == <<".", ".">>

\* Path(s): the components between the "/" of s; empty components and "."
\* are dropped, ".." is kept.
PathOf(s) ==
    LET comps == SelectSeq(Split(s, "/"), LAMBDA c : c # <<>> /\ c # Dot)
    IN  IF s # <<>> /\ Head(s) = "/" THEN <<Root>> \o comps ELSE comps

IsAbsolute(p) == p # <<>> /\ p[1] = Root

\* Path.expanduser(): a leading "~" component becomes the home directory.
ExpandUser(p, home) ==
    IF p # <<>> /\ p[1] = Tilde THEN home \o Tail(p) ELSE p

\* The symbolic link of the set l that the path p is, if it is one.
IsLink(p, l) == \E k \in l : k.from = p

LinkTarget(p, l) == (CHOOSE k \in l : k.from = p).to

\* Path.resolve(): made absolute from the working directory c, then walked
\* from the root; ".." steps up, a symbolic link is replaced by its target.
RECURSIVE ResolvePathFrom(_, _, _)
ResolvePathFrom(done, todo, l) ==
    IF todo = <<>> THEN done
    ELSE LET comp == Head(todo)
             next == IF comp = DotDot
                     THEN IF Len(done) > 1
                          THEN SubSeq(done, 1, Len(done) - 1) ELSE done
                     ELSE Append(done, comp)
             real == IF IsLink(next, l) THEN LinkTarget(next, l) ELSE next
         IN  ResolvePathFrom(real, Tail(todo), l)

ResolvePath(p, c, l) ==
    ResolvePathFrom(<<Root>>, Tail(IF IsAbsolute(p) THEN p ELSE c \o p), l)

\* ".pypasreportergui"
DefaultName ==
    <<".", "p", "y", "p", "a", "s", "r", "e", "p", "o", "r", "t", "e", "r",
      "g", "u", "i">>

\* Path.home() / ".pypasreportergui"
DefaultHome(home) == Append(home, DefaultName)

\* get_superset_home(), for the value env of PYPASREPORTERGUI_HOME, the home
\* directory of the user, the working directory c and the links l on disk.
GetSupersetHome_NoExpand(env, home, c, l) ==
    IF Truthy(env) THEN ResolvePath(PathOf(env), c, l) ELSE DefaultHome(home)

GetSupersetHome(env, home, c, l) ==
    IF Truthy(env)
    THEN ResolvePath(ExpandUser(PathOf(env), home), c, l)
    ELSE DefaultHome(home)

\* The path and its parents.
Prefixes(p) == {SubSeq(p, 1, i) : i \in 1..Len(p)}

HomeFrame == UNCHANGED <<tagVars, cfgVars, pinVars, rtVars, cliVars, bsVars, whlVars, baVars>>

\* get_superset_home()
GetSupersetHomeCall ==
    /\ UNCHANGED <<homeEnv, userHome, cwd, links, disk>>
    /\ homeLast' = [op |-> "get_superset_home",
                    res |-> GetSupersetHome(homeEnv, userHome, cwd, links),
                    created |-> disk' \ disk]
    /\ HomeFrame

\* ensure_home_dir(): home_dir.mkdir(parents=True, exist_ok=True)
EnsureHomeDir ==
    LET home_dir == GetSupersetHome(homeEnv, userHome, cwd, links)
    IN  /\ disk' = disk \cup Prefixes(home_dir)
        /\ homeLast' = [op |-> "ensure_home_dir", res |-> home_dir,
                        created |-> disk' \ disk]
        /\ UNCHANGED <<homeEnv, userHome, cwd, links>>
        /\ HomeFrame

\* The values of PYPASREPORTERGUI_HOME tried: unset, "", "/d", "/d/", "/l",
\* "d", "~", "~/d", "../d", "/d/../e".
EnvPool ==
    {NoneStr, <<>>, <<"/", "d">>, <<"/", "d", "/">>, <<"/", "l">>, <<"d">>,
     <<"~">>, <<"~", "/", "d">>, <<".", ".", "/", "d">>,
     <<"/", "d", "/", ".", ".", "/", "e">>}

\* The home directories: /h and /d.
Homes == {<<Root, <<"h">>>>, <<Root, <<"d">>>>}

\* The working directories: /, /w and /h.
Cwds == {<<Root>>, <<Root, <<"w">>>>, <<Root, <<"h">>>>}

\* The symbolic links on disk: none, or /l -> /d.
LinkStates == {{}, {[from |-> <<Root, <<"l">>>>, to |-> <<Root, <<"d">>>>]}}

HomeInit ==
    /\ homeEnv \in EnvPool
    /\ userHome \in Homes
    /\ cwd \in Cwds
    /\ links \in LinkStates
    /\ disk = {<<Root>>, userHome, cwd} \cup {k.to : k \in links}
    /\ homeLast = [op |-> "none", res |-> <<>>, created |-> {}]

HomeIdle ==
    /\ homeEnv = NoneStr
    /\ userHome = <<Root, <<"h">>>>
    /\ cwd = <<Root>>
    /\ links = {}
    /\ disk = {<<Root>>}
    /\ homeLast = [op |-> "none", res |-> <<>>, created |-> {}]

HomeNext == GetSupersetHomeCall \/ EnsureHomeDir

-----------------------------------------------------------------------------
(* runtime: frozen mode, the cached application, the Superset commands *)

\* The state of the Python process and of the Superset database:
\*   APP_DIR      superset.extensions.APP_DIR
\*   directory    superset.extensions.migrate.directory
\*   frozen_app   the global _frozen_app (0 is None, applications are 1, 2, ..)
\*   napps        how many times create_app has returned
\*   returned     the applications get_frozen_app has returned
\*   blueprints   app.blueprints of the cached application
\*   users, roles the user names and role names in the database
\*   trace        the calls, returns and raises of the top-level call, in order
\*   exc          the exception being propagated ("none": none)
\*   ret          the value last returned (0 for None)
\*   returncode   returncode of the last CompletedProcess (-1: none)

\* superset.extensions.APP_DIR as Superset computes it from __file__.
OriginalAppDir == <<"<__file__>", "superset">>

\* migrate.directory before create_app configures the extension.
DefaultMigrateDir == <<"migrations">>

\* is_frozen()
IsFrozen == sysFrozen /\ hasMeipass

\* get_frozen_base_path()
GetFrozenBasePath ==
    IF IsFrozen THEN <<"<_MEIPASS>">> ELSE <<"<site-packages>">>

\* get_superset_dir()
GetSupersetDir ==
    IF IsFrozen THEN Append(GetFrozenBasePath, "superset")
    ELSE <<"<site-packages>", "superset">>

\* An exception is propagating: the statements that follow do not run.
Raised(w) == w.exc # "none"

\* Entries of the trace.
RtCall(w, fn, a) ==
    [w EXCEPT !.trace = Append(@, [fn |-> fn, ev |-> "call", arg |-> a])]

RtReturn(w, fn, v) ==
    [w EXCEPT !.trace = Append(@, [fn |-> fn, ev |-> "return",
                                   arg |-> <<ToString(v)>>]),
              !.ret = v]

RtRaise(w, fn, type) ==
    [w EXCEPT !.trace = Append(@, [fn |-> fn, ev |-> "raise",
                                   arg |-> <<type>>]),
              !.exc = type]

\* A call of a library function that either returns or raises.
Ext(w, fn, a, outcome) ==
    IF Raised(w) THEN w
    ELSE IF outcome = "raise"
    THEN RtRaise(RtCall(w, fn, a), fn, "Exception")
    ELSE RtReturn(RtCall(w, fn, a), fn, 0)

\* The function fn returns None, unless an exception leaves it.
Finish(w, fn) == IF Raised(w) THEN w ELSE RtReturn(w, fn, 0)

\* patch_superset_paths_for_frozen()
PatchSupersetPathsForFrozen_NoCheck(w) ==
    IF ~IsFrozen
    THEN RtReturn(RtCall(w, "patch_superset_paths_for_frozen", <<>>),
                  "patch_superset_paths_for_frozen", 0)
    ELSE RtReturn([RtCall(w, "patch_superset_paths_for_frozen", <<>>)
                      EXCEPT !.APP_DIR = GetSupersetDir],
                  "patch_superset_paths_for_frozen", 0)

PatchSupersetPathsForFrozen(w) ==
    IF ~IsFrozen
    THEN RtReturn(RtCall(w, "patch_superset_paths_for_frozen", <<>>),
                  "patch_superset_paths_for_frozen", 0)
    ELSE IF "migrations" \notin bundle
    THEN RtRaise([RtCall(w, "patch_superset_paths_for_frozen", <<>>)
                     EXCEPT !.APP_DIR = GetSupersetDir],
                 "patch_superset_paths_for_frozen", "RuntimeError")
    ELSE RtReturn([RtCall(w, "patch_superset_paths_for_frozen", <<>>)
                      EXCEPT !.APP_DIR = GetSupersetDir],
                  "patch_superset_paths_for_frozen", 0)

\* superset.app.create_app(): it raises, or returns a new application and
\* leaves migrate.directory at <APP_DIR>/migrations for the APP_DIR that
\* superset.initialization imported, the original one or the patched one.
CreateApp(w, o) ==
    IF o.create_app = "raise"
    THEN RtRaise(RtCall(w, "create_app", <<>>), "create_app", "Exception")
    ELSE RtReturn([RtCall(w, "create_app", <<>>)
                      EXCEPT !.napps = @ + 1,
                             !.directory =
                                 Append(IF o.create_app = "ok_patched"
                                        THEN w.APP_DIR ELSE OriginalAppDir,
                                        "migrations")],
                  "create_app", w.napps + 1)

\* _frozen_app = create_app()
AssignFrozenApp(w) == IF Raised(w) THEN w ELSE [w EXCEPT !.frozen_app = w.ret]

SetFrozenApp(w, o) == IF Raised(w) THEN w ELSE AssignFrozenApp(CreateApp(w, o))

\* patch_migrate_directory(app)
PatchMigrateDirectory_NoOp(w) ==
    IF Raised(w) THEN w
    ELSE
    RtReturn(RtCall(w, "patch_migrate_directory", <<>>),
             "patch_migrate_directory", 0)

PatchMigrateDirectory(w) ==
    IF Raised(w) THEN w
    ELSE IF ~IsFrozen
    THEN RtReturn(RtCall(w, "patch_migrate_directory", <<>>),
                  "patch_migrate_directory", 0)
    ELSE RtReturn([RtCall(w, "patch_migrate_directory", <<>>)
                      EXCEPT !.directory =
                                 Append(GetSupersetDir, "migrations")],
                  "patch_migrate_directory", 0)

\* if _frozen_app is not None
Cached_Never(w) == FALSE

Cached(w) == w.frozen_app # 0

\* return _frozen_app
ReturnFrozenApp(w) ==
    IF Raised(w) THEN w
    ELSE
    RtReturn([w EXCEPT !.returned = @ \cup {w.frozen_app}],
             "get_frozen_app", w.frozen_app)

\* get_frozen_app()
GetFrozenApp(w, o) ==
    IF Cached(w) THEN ReturnFrozenApp(RtCall(w, "get_frozen_app", <<>>))
    ELSE ReturnFrozenApp(
             PatchMigrateDirectory(
                 SetFrozenApp(
                     PatchSupersetPathsForFrozen(
                         RtCall(w, "get_frozen_app", <<>>)),
                     o)))

\* The options of `fab create-admin` and the key of params each one sets.
ParamKeys ==
    [f \in {"--username", "--firstname", "--lastname", "--email", "--password"}
        |-> CASE f = "--username"  -> "username"
              [] f = "--firstname" -> "first_name"
              [] f = "--lastname"  -> "last_name"
              [] f = "--email"     -> "email"
              [] f = "--password"  -> "password"]

\* params = {}: params.get(key) is None for every key; "<error>" records the
\* IndexError of args[i + 1].
NoParams ==
    [k \in {"username", "first_name", "last_name", "email", "password",
            "<error>"} |-> "<None>"]

\* The while loop over args, from position i (1-based).
RECURSIVE ParseParams(_, _, _)
ParseParams(a, i, params) ==
    IF i > Len(a) THEN params
    ELSE IF a[i] \in DOMAIN ParamKeys
    THEN IF i + 1 > Len(a)
         THEN [params EXCEPT !["<error>"] = "IndexError"]
         ELSE ParseParams(a, i + 2,
                          [params EXCEPT ![ParamKeys[a[i]]] = a[i + 1]])
    ELSE ParseParams(a, i + 1, params)

\* sm.find_user(username=...): truthy when the user exists
FindUser_Never(w, username) == FALSE

FindUser(w, username) == \E i \in 1..Len(w.users) : w.users[i] = username

\* admin_role = sm.find_role("Admin"); if not admin_role: sm.add_role("Admin")
EnsureAdminRole(w) ==
    IF "Admin" \in w.roles THEN w
    ELSE Ext([w EXCEPT !.roles = @ \cup {"Admin"}],
             "add_role", <<"Admin">>, "ok")

\* sm.add_user(username=...): the new user; or a falsy value, after which
\* exit_code = 1; or an exception.
AddUser(w, o, username) ==
    IF o.add_user = "raise"
    THEN RtRaise(RtCall(w, "add_user", <<username>>), "add_user", "Exception")
    ELSE IF o.add_user = "none"
    THEN RtReturn(RtCall(w, "add_user", <<username>>), "add_user", 1)
    ELSE RtReturn([RtCall(w, "add_user", <<username>>)
                      EXCEPT !.users = Append(@, username)],
                  "add_user", 0)

\* The `fab create-admin` branch, once the arguments are parsed (find_user
\* is logged as returning 1 for a user and 0 for None; exit_code stays 0).
CreateAdminWith(w, o, params) ==
    IF params["<error>"] # "<None>"
    THEN RtRaise(w, "args[i + 1]", "IndexError")
    ELSE IF FindUser(w, params["username"])
    THEN [RtReturn(RtCall(w, "find_user", <<params["username"]>>),
                   "find_user", 1) EXCEPT !.ret = 0]
    ELSE AddUser(EnsureAdminRole(
                     RtReturn(RtCall(w, "find_user", <<params["username"]>>),
                              "find_user", 0)),
                 o, params["username"])

\* The `fab create-admin` branch of _run_superset_command_frozen.
CreateAdminFrozen(w, o, a) == CreateAdminWith(w, o, ParseParams(a, 3, NoParams))

\* The if/elif chain on args, inside app.app_context(); ret is the exit_code
\* it leaves.
Dispatch(w, o, a) ==
    IF Raised(w) THEN w
    ELSE IF a = <<"db", "upgrade">>
    THEN Ext(w, "db_upgrade", <<>>, o.db_upgrade)
    ELSE IF a = <<"init">>
    THEN IF o.init = "raise" THEN Ext(w, "_init", <<>>, "raise")
         ELSE Ext([w EXCEPT !.roles = @ \cup {"Admin"}], "_init", <<>>, "ok")
    ELSE IF Len(a) < 1 THEN RtRaise(w, "args[0]", "IndexError")
    ELSE IF a[1] = "fab" /\ Len(a) < 2
    THEN RtRaise(w, "args[1]", "IndexError")
    ELSE IF a[1] = "fab" /\ a[2] = "create-admin"
    THEN CreateAdminFrozen(w, o, a)
    ELSE IF a[1] = "run"
    THEN RtRaise(w, "_run_superset_command_frozen", "RuntimeError")
    ELSE RtRaise(w, "_run_superset_command_frozen", "NotImplementedError")

\* The body of the try statement of _run_superset_command_frozen.
FrozenBody(w, o, a) == Dispatch(GetFrozenApp(w, o), o, a)

\* return subprocess.CompletedProcess(..., returncode=...)
Completed(w, fn, rc) == [RtReturn(w, fn, rc) EXCEPT !.returncode = rc]

\* except Exception: exit_code = 1; if check: raise -- and the return
FrozenEnd(w, check) ==
    IF Raised(w) /\ check THEN w
    ELSE Completed([w EXCEPT !.exc = "none"], "_run_superset_command_frozen",
                   IF Raised(w) THEN 1 ELSE w.ret)

\* _run_superset_command_frozen(args, check)
RunSupersetCommandFrozen(w, o, a, check) ==
    FrozenEnd(FrozenBody(RtCall(w, "_run_superset_command_frozen", a), o, a),
              check)

\* The exit code of `python -m superset.cli.main <args>`.
ExitCode(o, a) ==
    IF a = <<"db", "upgrade">> THEN (IF o.db_upgrade = "ok" THEN 0 ELSE 1)
    ELSE IF a = <<"init">> THEN (IF o.init = "ok" THEN 0 ELSE 1)
    ELSE IF Len(a) >= 2 /\ a[1] = "fab"
    THEN (IF o.add_user = "user" THEN 0 ELSE 1)
    ELSE (IF o.serve = "ok" THEN 0 ELSE 1)

\* What the Superset command line of the subprocess does to the database when
\* it exits with 0: `init` syncs the roles, `fab create-admin` adds the user
\* unless the name is taken.
SupersetCli(w, a, rc) ==
    IF rc # 0 THEN w
    ELSE IF a = <<"init">> THEN [w EXCEPT !.roles = @ \cup {"Admin"}]
    ELSE IF Len(a) >= 2 /\ a[1] = "fab" /\ a[2] = "create-admin"
    THEN IF FindUser(w, ParseParams(a, 3, NoParams)["username"]) THEN w
         ELSE [w EXCEPT !.users =
                            Append(@, ParseParams(a, 3, NoParams)["username"])]
    ELSE w

\* subprocess.run(cmd, check=check), the command having exited with rc
SubprocessEnd(w, rc, check) ==
    IF rc # 0 /\ check THEN RtRaise(w, "subprocess.run", "CalledProcessError")
    ELSE Completed(w, "subprocess.run", rc)

SubprocessRun(w, o, a, check) ==
    SubprocessEnd(SupersetCli(RtCall(w, "subprocess.run", a), a,
                              ExitCode(o, a)),
                  ExitCode(o, a), check)

\* run_superset_command(args, check)
RunSupersetCommand(w, o, a, check) ==
    IF Raised(w) THEN w
    ELSE IF IsFrozen
    THEN RunSupersetCommandFrozen(RtCall(w, "run_superset_command", a),
                                  o, a, check)
    ELSE SubprocessRun(RtCall(w, "run_superset_command", a), o, a, check)

\* init_database()
InitDatabase(w, o) ==
    RunSupersetCommand(RunSupersetCommand(w, o, <<"db", "upgrade">>, TRUE),
                       o, <<"init">>, TRUE)

\* The command create_admin_user builds.
CreateAdminCmd(username) ==
    <<"fab", "create-admin", "--username", username,
      "--firstname", "pyPASreporterGUI", "--lastname", "Admin",
      "--email", "admin@pypasreportergui.local", "--password", "admin">>

\* os.environ.get("SUPERSET_ADMIN_USERNAME", username)
EffectiveUsername(username, env_username) ==
    IF env_username # "<None>" THEN env_username ELSE username

\* create_admin_user(username=...), SUPERSET_ADMIN_USERNAME being env_username
CreateAdminUser(w, o, username, env_username) ==
    IF Raised(w) THEN w
    ELSE
    Finish(RunSupersetCommand(
               RtCall(w, "create_admin_user",
                      <<EffectiveUsername(username, env_username)>>),
               o, CreateAdminCmd(EffectiveUsername(username, env_username)),
               FALSE),
           "create_admin_user")

\* if "pypasreportergui_branding" not in app.blueprints:
\*     app.register_blueprint(branding_bp)
RegisterBranding(w) ==
    IF Raised(w) \/ "pypasreportergui_branding" \in w.blueprints THEN w
    ELSE Ext([w EXCEPT !.blueprints = @ \cup {"pypasreportergui_branding"}],
             "register_blueprint", <<>>, "ok")

\* _run_superset_server_frozen(host, port, debug)
RunSupersetServerFrozen(w, o) ==
    Ext(RegisterBranding(GetFrozenApp(w, o)), "app.run", <<>>, o.serve)

\* The command run_superset_server builds (reload and debug off).
RunCmd == <<"run", "-h", "127.0.0.1", "-p", "8088", "--with-threads">>

\* run_superset_server(host, port, reload, debug)
RunSupersetServer(w, o) ==
    IF Raised(w) THEN w
    ELSE
    Finish(IF IsFrozen
           THEN RunSupersetServerFrozen(
                    RtCall(w, "run_superset_server", <<>>), o)
           ELSE RunSupersetCommand(RtCall(w, "run_superset_server", <<>>),
                                   o, RunCmd, TRUE),
           "run_superset_server")

\* How the library calls of one top-level call end.
AllOracles ==
    [create_app : {"ok_original", "ok_patched", "raise"},
     db_upgrade : {"ok", "raise"},
     init : {"ok", "raise"},
     add_user : {"user", "none", "raise"},
     serve : {"ok", "raise"}]

\* The library calls a command line makes besides create_app.
LibraryCalls(a) ==
    IF a = <<"db", "upgrade">> THEN {"db_upgrade"}
    ELSE IF a = <<"init">> THEN {"init"}
    ELSE IF Len(a) >= 2 /\ a[1] = "fab" THEN {"add_user"}
    ELSE {"serve"}

\* The outcomes of the library calls named; the calls not made are left out
\* (their outcome is fixed).
Oracles(made) ==
    {o \in AllOracles :
        /\ "create_app" \notin made => o.create_app = "ok_original"
        /\ "db_upgrade" \notin made => o.db_upgrade = "ok"
        /\ "init" \notin made => o.init = "ok"
        /\ "add_user" \notin made => o.add_user = "user"
        /\ "serve" \notin made => o.serve = "ok"}

\* The user names.
Usernames == {"admin", "bob"}

\* The argument lists given to run_superset_command.
ArgsPool ==
    {<<"db", "upgrade">>, <<"init">>, <<"run", "-h", "127.0.0.1">>,
     <<"version">>, <<>>, <<"fab">>,
     <<"fab", "create-admin", "--username">>}
    \cup {CreateAdminCmd(u) : u \in Usernames}

MaxRtCalls == 3

RtFrame == UNCHANGED <<tagVars, cfgVars, pinVars, homeVars, cliVars, bsVars, whlVars, baVars>>

\* The start of a top-level call: nothing raised or returned yet.
Begin(w) ==
    [w EXCEPT !.trace = <<>>, !.exc = "none", !.ret = 0, !.returncode = -1]

\* A top-level call op(a, check) that takes the process from rt to w.
RtApi(op, a, check, w) ==
    /\ rtCalls < MaxRtCalls
    /\ rtCalls' = rtCalls + 1
    /\ rt' = w
    /\ rtLast' = [op |-> op, args |-> a, check |-> check]
    /\ UNCHANGED <<sysFrozen, hasMeipass, bundle>>
    /\ RtFrame

CallPatchSupersetPaths ==
    RtApi("patch_superset_paths_for_frozen", <<>>, FALSE,
          PatchSupersetPathsForFrozen(Begin(rt)))

CallGetFrozenApp ==
    \E o \in Oracles({"create_app"}) :
        RtApi("get_frozen_app", <<>>, FALSE, GetFrozenApp(Begin(rt), o))

CallRunSupersetCommand ==
    \E a \in ArgsPool, check \in BOOLEAN :
      \E o \in Oracles({"create_app"} \cup LibraryCalls(a)) :
        RtApi("run_superset_command", a, check,
              RunSupersetCommand(Begin(rt), o, a, check))

CallInitDatabase ==
    \E o \in Oracles({"create_app", "db_upgrade", "init"}) :
        RtApi("init_database", <<>>, TRUE, InitDatabase(Begin(rt), o))

CallCreateAdminUser ==
    \E o \in Oracles({"create_app", "add_user"}),
       u \in Usernames, e \in Usernames \cup {"<None>"} :
        RtApi("create_admin_user", <<EffectiveUsername(u, e)>>, FALSE,
              CreateAdminUser(Begin(rt), o, u, e))

CallRunSupersetServer ==
    \E o \in Oracles({"create_app", "serve"}) :
        RtApi("run_superset_server", <<>>, TRUE,
              RunSupersetServer(Begin(rt), o))

\* cli.py: the directories a frozen bundle must hold under <_MEIPASS>/superset
RequiredDirs ==
    {"migrations", "migrations/versions", "templates", "static/assets"}

\* A process that has just started, on a database with the given users and
\* roles.
FreshProcess(u, r) ==
    [APP_DIR |-> OriginalAppDir, directory |-> DefaultMigrateDir,
     frozen_app |-> 0, napps |-> 0, returned |-> {}, blueprints |-> {},
     users |-> u, roles |-> r, trace |-> <<>>, exc |-> "none", ret |-> 0,
     returncode |-> -1]

NoCall == [op |-> "none", args |-> <<>>, check |-> FALSE]

RtInit ==
    /\ sysFrozen \in BOOLEAN
    /\ hasMeipass \in BOOLEAN
    /\ bundle \in {RequiredDirs, {"templates", "static/assets"}}
    /\ \E u \in {<<>>, <<"admin">>} : rt = FreshProcess(u, {})
    /\ rtLast = NoCall
    /\ rtCalls = 0

RtIdle ==
    /\ sysFrozen = FALSE
    /\ hasMeipass = FALSE
    /\ bundle = {}
    /\ rt = FreshProcess(<<>>, {})
    /\ rtLast = NoCall
    /\ rtCalls = 0

RtNext ==
    \/ CallPatchSupersetPaths \/ CallGetFrozenApp \/ CallRunSupersetCommand
    \/ CallInitDatabase \/ CallCreateAdminUser \/ CallRunSupersetServer

-----------------------------------------------------------------------------
(* cli.py: the commands run, init, doctor and add-duckdb *)

\* Every command is one run of the program: a new Python process on the
\* files of the home directory and on the Superset database.  The trace of
\* the process records what the command called, in order.

\* home_dir = ensure_home_dir(); config_path = generate_config(home_dir, force)
\* as the process sees them: generate_config raises FileExistsError when one
\* of the directories it creates is taken by a regular file.
ConfigCalls(w, force) ==
    IF ~EarlyReturn(force) /\ MkDirsRaises(dirs)
    THEN RtRaise(RtCall(Ext(w, "ensure_home_dir", <<>>, "ok"),
                        "generate_config", <<ToString(force)>>),
                 "generate_config", "FileExistsError")
    ELSE RtReturn(RtCall(Ext(w, "ensure_home_dir", <<>>, "ok"),
                         "generate_config", <<ToString(force)>>),
                  "generate_config", 0)

\* os.environ["SUPERSET_CONFIG_PATH"] = ...; os.environ["SUPERSET_HOME"] = ...
Exports(w) ==
    Ext(Ext(w, "os.environ.__setitem__", <<"SUPERSET_CONFIG_PATH">>, "ok"),
        "os.environ.__setitem__", <<"SUPERSET_HOME">>, "ok")

\* The same two calls as the files see them: the home directory exists
\* afterwards, and the configuration is written unless generate_config
\* returns early.
ConfigFiles(force) ==
    /\ homeExists' = TRUE
    /\ UNCHANGED <<envKey, cfgCalls>>
    /\ IF EarlyReturn(force)
       THEN /\ cfgLast' = [force |-> force, existed |-> TRUE,
                           result |-> "returned", wrote |-> FALSE]
            /\ UNCHANGED <<cfg, secretFile, dirs>>
       ELSE \E fresh \in FreshKeys :
            /\ Truthy(envKey) \/ secretFile # AbsentFile
                   => fresh = <<"f", "1">>
            /\ secretFile' =
                   IF ~Truthy(envKey) /\ secretFile = AbsentFile
                   THEN fresh ELSE secretFile
            /\ cfg' = ConfigContent(SecretKey(fresh))
            /\ dirs' = MkDirs(dirs)
            /\ cfgLast' = [force |-> force, existed |-> cfg # AbsentFile,
                           result |-> IF MkDirsRaises(dirs)
                                      THEN "raised" ELSE "returned",
                           wrote |-> TRUE]

\* run: if not no_init: init_database(); create_admin_user()
\*      run_superset_server(...)
RunSteps_AlwaysInit(w, o, no_init, env_username) ==
    RunSupersetServer(
        CreateAdminUser(InitDatabase(w, o), o, "admin", env_username), o)

RunSteps(w, o, no_init, env_username) ==
    IF no_init THEN RunSupersetServer(w, o)
    ELSE RunSupersetServer(
             CreateAdminUser(InitDatabase(w, o), o, "admin", env_username),
             o)

\* init: init_database(); create_admin_user(username=admin_username, ...)
InitSteps_Serve(w, o, admin_username, env_username) ==
    RunSupersetServer(
        CreateAdminUser(InitDatabase(w, o), o, admin_username, env_username),
        o)

InitSteps(w, o, admin_username, env_username) ==
    CreateAdminUser(InitDatabase(w, o), o, admin_username, env_username)

\* The exit status of the process: 1 when an exception leaves the command.
ExitStatus(w) == IF Raised(w) THEN 1 ELSE 0

MaxCliCalls == 2

CliFrame == UNCHANGED <<tagVars, pinVars, homeVars, bsVars, whlVars, baVars>>

\* One run of a command: the process ends as w.
CliApi(cmd, opts, w) ==
    /\ cliCalls < MaxCliCalls
    /\ cliCalls' = cliCalls + 1
    /\ rt' = w
    /\ cliLast' = [cmd |-> cmd, opts |-> opts, exit |-> ExitStatus(w)]
    /\ UNCHANGED <<sysFrozen, hasMeipass, bundle, rtLast, rtCalls>>
    /\ CliFrame

\* The library calls a command can reach: create_app only in frozen mode,
\* and none after a call whose failure ends the command (db upgrade and init
\* are run with check=True; in a new frozen process create_app comes first).
CliOracles(made) ==
    {o \in Oracles(IF IsFrozen THEN made \cup {"create_app"} ELSE made) :
        /\ o.create_app = "raise" \/ o.db_upgrade = "raise"
               => o.init = "ok"
        /\ o.create_app = "raise" \/ o.db_upgrade = "raise"
            \/ o.init = "raise"
               => o.add_user = "user" /\ o.serve = "ok"
        /\ o.create_app = "raise" => o.db_upgrade = "ok"}

\* pypasreportergui run [--no-init]
CmdRun ==
    \E no_init \in BOOLEAN, e \in {"<None>"} :
      \E o \in CliOracles(IF no_init THEN {"serve"}
                          ELSE {"db_upgrade", "init", "add_user", "serve"}) :
        /\ ConfigFiles(FALSE)
        /\ UNCHANGED databases
        /\ CliApi("run", [no_init |-> no_init],
                  RunSteps(Exports(ConfigCalls(
                               FreshProcess(rt.users, rt.roles), FALSE)),
                           o, no_init, e))

\* pypasreportergui init [--admin-username U] [--force]
CmdInit ==
    \E force \in BOOLEAN, u \in Usernames :
      \E o \in CliOracles({"db_upgrade", "init", "add_user"}) :
        /\ ConfigFiles(force)
        /\ UNCHANGED databases
        /\ CliApi("init", [force |-> force, admin_username |-> u],
                  InitSteps(Exports(ConfigCalls(
                                FreshProcess(rt.users, rt.roles), force)),
                            o, u, "<None>"))

\* doctor: all_ok after the loop over required_dirs, which runs in frozen
\* mode only.
AssetsOk == IF IsFrozen THEN \A n \in RequiredDirs : n \in bundle ELSE TRUE

\* doctor: from superset.app import create_app / except ImportError
SupersetOk(ok, o) == IF o.superset = "ImportError" THEN FALSE ELSE ok

\* doctor: SELECT 42 on duckdb:///:memory: -- an unexpected row or any
\* exception clears all_ok
DuckdbOk(ok, o) == IF o.duckdb = "42" THEN ok ELSE FALSE

\* doctor: the entry points of group sqlalchemy.dialects -- none with "duck"
\* in its name, or any exception, clears all_ok
DialectOk_Warn(ok, o) == IF o.dialect = "raise" THEN FALSE ELSE ok

DialectOk(ok, o) == IF o.dialect = "found" THEN ok ELSE FALSE

\* doctor: from pypasreportergui.branding.blueprint import branding_bp
BrandingOk(ok, o) == IF o.branding = "ImportError" THEN FALSE ELSE ok

\* all_ok at the end of doctor
AllOk(o) ==
    BrandingOk(DialectOk(DuckdbOk(SupersetOk(AssetsOk, o), o), o), o)

\* for name, path in required_dirs: path.exists()
AssetChecks(w) ==
    IF ~IsFrozen THEN w
    ELSE Ext(Ext(Ext(Ext(w, "path.exists", <<"migrations">>, "ok"),
                     "path.exists", <<"migrations/versions">>, "ok"),
                 "path.exists", <<"templates">>, "ok"),
             "path.exists", <<"static/assets">>, "ok")

\* The four sanity checks, in order.
SanityChecks(w) ==
    Ext(Ext(Ext(Ext(w, "check", <<"superset.app">>, "ok"),
                "check", <<"duckdb engine">>, "ok"),
            "check", <<"sqlalchemy.dialects">>, "ok"),
        "check", <<"branding">>, "ok")

\* if all_ok: ... else: raise typer.Exit(1)
DoctorEnd(w, ok) ==
    IF ok THEN RtReturn(w, "doctor", 0) ELSE RtRaise(w, "doctor", "Exit(1)")

\* doctor()
Doctor(w, o) ==
    DoctorEnd(SanityChecks(AssetChecks(RtCall(w, "doctor", <<>>))), AllOk(o))

\* How the checks of doctor can end.
DoctorOracles ==
    [superset : {"ok", "ImportError"},
     duckdb : {"42", "unexpected", "raise"},
     dialect : {"found", "none", "raise"},
     branding : {"ok", "ImportError"}]

\* pypasreportergui doctor
CmdDoctor ==
    \E o \in DoctorOracles :
        /\ UNCHANGED <<cfgVars, databases>>
        /\ CliApi("doctor", o, Doctor(FreshProcess(rt.users, rt.roles), o))

\* str(path)
RECURSIVE JoinPath(_)
JoinPath(cs) ==
    IF cs = <<>> THEN <<>>
    ELSE IF Len(cs) = 1 THEN cs[1]
    ELSE cs[1] \o <<"/">> \o JoinPath(Tail(cs))

PathStr(p) == IF IsAbsolute(p) THEN <<"/">> \o JoinPath(Tail(p)) ELSE JoinPath(p)

\* The position of the last "." of a file name, 0 when it has none.
LastDot(n) == MaxOf({0} \cup {i \in 1..Len(n) : n[i] = "."})

\* path.stem: the last component without its suffix; a leading or a trailing
\* "." starts no suffix.
Stem(p) ==
    IF 1 < LastDot(p[Len(p)]) /\ LastDot(p[Len(p)]) < Len(p[Len(p)])
    THEN SubSeq(p[Len(p)], 1, LastDot(p[Len(p)]) - 1)
    ELSE p[Len(p)]

\* db_name = name or path.stem
DbName(name, p) == IF Truthy(name) THEN name ELSE Stem(p)

ReadOnlyQuery ==
    <<"?", "r", "e", "a", "d", "_", "o", "n", "l", "y", "=", "t", "r", "u", "e">>

\* uri = f"duckdb:///{path}?read_only=true" or f"duckdb:///{path}"
Uri(p, read_only) ==
    <<"d", "u", "c", "k", "d", "b", ":", "/", "/", "/">> \o PathStr(p)
        \o (IF read_only THEN ReadOnlyQuery ELSE <<>>)

\* existing = db.session.query(Database).filter_by(database_name=db_name).first()
Existing_Never(dbs, db_name) == FALSE

Existing(dbs, db_name) ==
    \E i \in 1..Len(dbs) : dbs[i].database_name = db_name

\* if existing: ... else: db.session.add(database); db.session.commit()
AddAndCommit(w, o, exists) ==
    IF Raised(w) \/ exists THEN w ELSE Ext(w, "commit", <<>>, o.commit)

\* The body of the try statement of add_duckdb.
Registration(w, o, exists) ==
    AddAndCommit(Ext(CreateApp(Exports(w), o), "query", <<>>, o.query),
                 o, exists)

\* except Exception as e: console.print(...)
Caught(w) == [w EXCEPT !.exc = "none"]

\* if config_path.exists(): try ... except Exception ... else: print the hint
AddDuckdb(w, o, exists) ==
    IF cfg # AbsentFile
    THEN Finish(Caught(Registration(RtCall(w, "add_duckdb", <<>>), o, exists)),
                "add_duckdb")
    ELSE Finish(RtCall(w, "add_duckdb", <<>>), "add_duckdb")

\* The Database rows after add_duckdb.
Databases(dbs, o, db_name, uri) ==
    IF /\ cfg # AbsentFile
       /\ o.create_app # "raise" /\ o.query # "raise" /\ o.commit # "raise"
       /\ ~Existing(dbs, db_name)
    THEN Append(dbs, [database_name |-> db_name, sqlalchemy_uri |-> uri])
    ELSE dbs

\* The working directory of the command.
WorkDir == <<Root, <<"w">>>>

\* The values of --path and of --name (None when the option is not given).
PathPool ==
    {<<"s", "a", ".", "d", "b">>,
     <<"/", "d", "/", "s", "a", ".", "x">>,
     <<"/", "d", "/", ".", "s", "a">>}

NamePool == {NoneStr, <<>>, <<"s", "a">>}

\* How create_app, the query and the commit of add_duckdb can end (a call
\* that is not reached is left out).
DuckOracles ==
    {o \in [create_app : {"ok_original", "raise"}, query : {"ok", "raise"},
            commit : {"ok", "raise"}] :
        /\ o.create_app = "raise" => o.query = "ok"
        /\ o.create_app = "raise" \/ o.query = "raise" => o.commit = "ok"}

\* pypasreportergui add-duckdb --path P [--name N] [--read-only]
CmdAddDuckdb ==
    \E s \in PathPool, name \in NamePool, read_only \in BOOLEAN,
       o \in DuckOracles :
        /\ databases' =
               Databases(databases, o,
                         DbName(name, ResolvePath(PathOf(s), WorkDir, {})),
                         Uri(ResolvePath(PathOf(s), WorkDir, {}), read_only))
        /\ UNCHANGED cfgVars
        /\ CliApi("add-duckdb",
                  [path |-> s, name |-> name, read_only |-> read_only,
                   configured |-> cfg # AbsentFile],
                  AddDuckdb(FreshProcess(rt.users, rt.roles), o,
                            Existing(databases,
                                     DbName(name,
                                            ResolvePath(PathOf(s), WorkDir,
                                                        {})))))

\* The home directory and the database before the first command: the home
\* directory missing, or present with or without a configuration file and
\* with the name of a directory taken by a file or not.
CliInit ==
    /\ homeExists \in BOOLEAN
    /\ envKey = <<"e", "1">>
    /\ cfg \in {AbsentFile, ModifiedContent}
    /\ secretFile = AbsentFile
    /\ dirs \in {[n \in DirSet |-> "absent"],
                 [n \in DirSet |-> IF n = "logs" THEN "file" ELSE "absent"]}
    /\ ~homeExists => cfg = AbsentFile /\ \A n \in DirSet : dirs[n] = "absent"
    /\ cfgLast = [force |-> FALSE, existed |-> FALSE,
                  result |-> "none", wrote |-> FALSE]
    /\ cfgCalls = 0
    /\ sysFrozen \in BOOLEAN
    /\ hasMeipass = sysFrozen
    /\ bundle \in {RequiredDirs, {"templates", "static/assets"}}
    /\ ~sysFrozen => bundle = RequiredDirs
    /\ \E u \in {<<>>, <<"admin">>} : rt = FreshProcess(u, {})
    /\ rtLast = NoCall
    /\ rtCalls = 0
    /\ databases = <<>>
    /\ cliLast = [cmd |-> "none", opts |-> <<>>, exit |-> 0]
    /\ cliCalls = 0

CliIdle ==
    /\ databases = <<>>
    /\ cliLast = [cmd |-> "none", opts |-> <<>>, exit |-> 0]
    /\ cliCalls = 0

CliNext == CmdRun \/ CmdInit \/ CmdDoctor \/ CmdAddDuckdb

-----------------------------------------------------------------------------
(* tools/build_superset.py: main *)

\* A run of main: the commands it has started in order, the value it
\* returned (-1 while it runs) and the exception that left it.
BsStart == [cmds |-> <<>>, ret |-> -1, exc |-> "none"]

BsDone(b) == b.ret # -1 \/ b.exc # "none"

\* run(cmd): subprocess.run(cmd, check=True); the command o.fail exits with a
\* non-zero status.
BsRun(b, cmd, o) ==
    IF BsDone(b) THEN b
    ELSE IF o.fail = cmd
    THEN [b EXCEPT !.cmds = Append(@, cmd), !.exc = "CalledProcessError"]
    ELSE [b EXCEPT !.cmds = Append(@, cmd)]

\* if not repo_root.exists(): return 1
CheckRepo(b) ==
    IF BsDone(b) \/ bsRepoExists THEN b ELSE [b EXCEPT !.ret = 1]

\* read_version_matrix(base_dir).get("superset_sha"): None when the file does
\* not exist or has no such key.
ExpectedSha ==
    IF bsMatrix.file = "present" THEN bsMatrix.superset_sha ELSE NoneStr

\* get_git_head(repo_root): git rev-parse HEAD with check=True
NotARepo == <<"<not a repository>">>

GetGitHead(b) ==
    IF BsDone(b) THEN b
    ELSE IF bsHead = NotARepo
    THEN [b EXCEPT !.cmds = Append(@, "git rev-parse HEAD"),
                   !.exc = "CalledProcessError"]
    ELSE [b EXCEPT !.cmds = Append(@, "git rev-parse HEAD")]

\* result.stdout.strip()
ActualSha == Strip(bsHead \o <<"\n">>)

\* if expected_sha and actual_sha != expected_sha: return 1
ShaMismatch == Truthy(ExpectedSha) /\ ActualSha # ExpectedSha

CompareSha(b) ==
    IF BsDone(b) \/ ~ShaMismatch THEN b ELSE [b EXCEPT !.ret = 1]

\* if args.verify_sha: ... (json.loads raises on a file that is not JSON)
VerifySha(b, a) ==
    IF BsDone(b) \/ ~a.verify_sha THEN b
    ELSE IF bsMatrix.file = "malformed"
    THEN [b EXCEPT !.exc = "JSONDecodeError"]
    ELSE CompareSha(GetGitHead(b))

\* run(["python", "--version"]); run(["node", "--version"]);
\* run(["npm", "--version"])
EnvReport(b, o) ==
    BsRun(BsRun(BsRun(b, "python --version", o), "node --version", o),
          "npm --version", o)

\* pick_build_script(package_json), then npm ci and npm run <script>
NpmBuild(b, o) ==
    IF o.package_json = "no build script"
    THEN [b EXCEPT !.exc = "RuntimeError"]
    ELSE BsRun(BsRun(b, "npm ci", o), "npm run build", o)

\* if not args.skip_frontend: ...
Frontend(b, a, o) ==
    IF BsDone(b) \/ a.skip_frontend THEN b
    ELSE IF o.package_json = "absent" THEN [b EXCEPT !.ret = 1]
    ELSE NpmBuild(b, o)

\* if not args.skip_backend: uv --version decides between uv pip and pip
Backend(b, a, o) ==
    IF BsDone(b) \/ a.skip_backend THEN b
    ELSE BsRun([b EXCEPT !.cmds = Append(@, "uv --version")],
               "pip install -e superset-src", o)

\* if not args.skip_packages: ...
Packages(b, a, o) ==
    IF BsDone(b) \/ a.skip_packages THEN b
    ELSE BsRun([b EXCEPT !.cmds = Append(@, "uv --version")],
               "pip install packages", o)

\* The summary: get_git_head(repo_root) once more, then return 0.
Summary(b) ==
    IF BsDone(GetGitHead(b)) THEN GetGitHead(b)
    ELSE [GetGitHead(b) EXCEPT !.ret = 0]

\* main()
BuildSupersetMain(a, o) ==
    Summary(
        Packages(
            Backend(
                Frontend(
                    EnvReport(VerifySha(CheckRepo(BsStart), a), o),
                    a, o),
                a, o),
            a, o))

\* raise SystemExit(main()): the exit status of the script, 1 when an
\* exception leaves main.
BsExit(b) == IF b.exc # "none" THEN 1 ELSE b.ret

\* The options of build_superset.py.
BsArgs ==
    [verify_sha : BOOLEAN, skip_frontend : BOOLEAN, skip_backend : BOOLEAN,
     skip_packages : BOOLEAN]

\* The command that fails, if one does, and the state of
\* superset-frontend/package.json.
BsOracles ==
    [fail : {"none", "node --version", "npm ci", "npm run build",
             "pip install -e superset-src", "pip install packages"},
     package_json : {"build", "absent", "no build script"}]

MaxBuildCalls == 1

BsFrame == UNCHANGED <<tagVars, cfgVars, pinVars, homeVars, rtVars, cliVars, whlVars, baVars>>

\* python tools/build_superset.py [options]
BuildSuperset ==
    \E a \in BsArgs, o \in BsOracles :
        /\ bsCalls < MaxBuildCalls
        /\ bsCalls' = bsCalls + 1
        /\ bsLast' = [args |-> a, run |-> BuildSupersetMain(a, o)]
        /\ UNCHANGED <<bsRepoExists, bsHead, bsMatrix>>
        /\ BsFrame

\* No call yet.
BsNoCall ==
    [args |-> [verify_sha |-> FALSE, skip_frontend |-> FALSE,
               skip_backend |-> FALSE, skip_packages |-> FALSE],
     run |-> BsStart]

\* superset-src missing, or a checkout at commit 1 or 2, or a directory that
\* is no repository; VERSION_MATRIX.json missing, not JSON, or JSON whose
\* superset_sha is absent or null, empty, or the name of commit 1.
BsInit ==
    /\ bsRepoExists \in BOOLEAN
    /\ bsHead \in {ShaOf(1), ShaOf(2), NotARepo}
    /\ ~bsRepoExists => bsHead = NotARepo
    /\ bsMatrix \in [file : {"absent", "malformed", "present"},
                     superset_sha : {NoneStr, <<>>, ShaOf(1)}]
    /\ bsMatrix.file # "present" => bsMatrix.superset_sha = NoneStr
    /\ bsLast = BsNoCall
    /\ bsCalls = 0

BsIdle ==
    /\ bsRepoExists = FALSE
    /\ bsHead = NotARepo
    /\ bsMatrix = [file |-> "absent", superset_sha |-> NoneStr]
    /\ bsLast = BsNoCall
    /\ bsCalls = 0

BsNext == BuildSuperset

-----------------------------------------------------------------------------
(* tools/build_wheels.py: build_wheel *)

\* The file system: the directories that exist and the wheel files, each
\* with the directory it is in, its file name and the build that wrote it
\* (0 for a wheel that was there before the first call).

\* The repository and the directory names used below.
RepoDir == <<Root, <<"r">>>>

DistName == <<"d", "i", "s", "t">>

BuildName == <<"b", "u", "i", "l", "d">>

EggInfoName == <<"p", ".", "e", "g", "g", "-", "i", "n", "f", "o">>

WheelsName == <<"w", "h", "e", "e", "l", "s">>

\* path is the directory top or lies inside it.
IsUnder(path, top) ==
    Len(top) <= Len(path) /\ SubSeq(path, 1, Len(top)) = top

\* shutil.rmtree(top)
RmTree(fs, top) ==
    [dirs |-> {d \in fs.dirs : ~IsUnder(d, top)},
     wheels |-> {f \in fs.wheels : ~IsUnder(f.dir, top)}]

\* output_dir.glob("*.whl"): the paths of the wheels in the directory
WheelGlob(fs, output_dir) ==
    {Append(f.dir, f.name) : f \in {g \in fs.wheels : g.dir = output_dir}}

\* for pattern in ["build", "*.egg-info"]: for path in
\* package_dir.glob(pattern): if path.is_dir(): shutil.rmtree(path)
CleanBuild(fs, package_dir) ==
    RmTree(RmTree(fs, Append(package_dir, BuildName)),
           Append(package_dir, EggInfoName))

\* path.parent
Parent(p) == IF Len(p) > 1 THEN SubSeq(p, 1, Len(p) - 1) ELSE p

\* The test that guards shutil.rmtree(pkg_dist), on the resolved paths.
MayRemoveDist(pkg_dist, output_dir) ==
    /\ pkg_dist # output_dir
    /\ pkg_dist # Parent(output_dir)
    /\ ~IsPrefix(PathStr(pkg_dist), PathStr(output_dir))

\* if pkg_dist.exists(): ... shutil.rmtree(pkg_dist)
CleanDist(fs, package_dir, output_dir) ==
    IF /\ Append(package_dir, DistName) \in fs.dirs
       /\ MayRemoveDist(
              ResolvePath(Append(package_dir, DistName), WorkDir, {}),
              ResolvePath(output_dir, WorkDir, {}))
    THEN RmTree(fs, Append(package_dir, DistName))
    ELSE fs

\* The file system when the build command is started.
AtBuildStart(fs, package_dir, output_dir) ==
    CleanDist(CleanBuild(fs, package_dir), package_dir, output_dir)

\* uv build --wheel --out-dir <output_dir> (or python -m build): a build
\* that succeeds creates the output directory if needed and writes the
\* wheel there, over a file of the same name; it leaves build/ behind.
BuildCommand(fs, package_dir, output_dir, o, n) ==
    IF ~o.build_ok THEN fs
    ELSE [dirs |-> fs.dirs \cup Prefixes(output_dir)
                      \cup {Append(package_dir, BuildName)},
          wheels |-> {f \in fs.wheels :
                         ~(f.dir = output_dir /\ f.name = o.wheel)}
                     \cup {[dir |-> output_dir, name |-> o.wheel,
                            build |-> n]}]

\* new_wheels = list(set(output_dir.glob("*.whl")) - existing_wheels)
NewWheels(before, after, output_dir) ==
    WheelGlob(after, output_dir) \ WheelGlob(before, output_dir)

\* The list build_wheel returns (as a set), before being the file system at
\* the call and after the file system the build command left.
BuildWheelResult(before, after, output_dir, o) ==
    IF ~o.has_project \/ ~o.build_ok THEN {}
    ELSE NewWheels(before, after, output_dir)

\* The file system after build_wheel(package_dir, output_dir, name), n being
\* the number of the call.
BuildWheel(fs, package_dir, output_dir, o, n) ==
    IF ~o.has_project THEN fs
    ELSE BuildCommand(AtBuildStart(fs, package_dir, output_dir),
                      package_dir, output_dir, o, n)

\* The package directories and the output directories of the calls.
PackageDirs == {RepoDir, Append(RepoDir, <<"s", "r", "c">>)}

OutputDirs ==
    {Append(RepoDir, DistName),
     <<Root, <<"r">>, DistName, WheelsName>>,
     <<Root, <<"r">>, DistName, <<"a">>, WheelsName>>,
     <<Root, <<"r">>, <<"d", "i", "s", "t", "2">>>>,
     <<Root, <<"r">>, BuildName, WheelsName>>,
     <<Root, <<"o">>, WheelsName>>}

\* The wheel file names.
WheelNames ==
    {<<"p", "-", "1", ".", "w", "h", "l">>, <<"p", "-", "2", ".", "w", "h", "l">>}

\* pyproject.toml or setup.py exists; the build command succeeds; the wheel
\* it writes.
WheelOracles ==
    {o \in [has_project : BOOLEAN, build_ok : BOOLEAN, wheel : WheelNames] :
        ~o.has_project => o.build_ok}

MaxWheelCalls == 2

WhlFrame == UNCHANGED <<tagVars, cfgVars, pinVars, homeVars, rtVars, cliVars, bsVars, baVars>>

\* build_wheel(package_dir, output_dir, package_name)
BuildWheelCall ==
    \E p \in PackageDirs, out \in OutputDirs, o \in WheelOracles :
        /\ whlCalls < MaxWheelCalls
        /\ whlCalls' = whlCalls + 1
        /\ whlFs' = BuildWheel(whlFs, p, out, o, whlCalls + 1)
        /\ whlLast' =
               [package_dir |-> p, output_dir |-> out, oracle |-> o,
                before |-> whlFs,
                at_start |-> IF o.has_project
                             THEN AtBuildStart(whlFs, p, out) ELSE whlFs,
                result |-> BuildWheelResult(
                               whlFs, BuildWheel(whlFs, p, out, o,
                                                 whlCalls + 1),
                               out, o)]
        /\ WhlFrame

\* Nothing on disk.
EmptyFs == [dirs |-> {}, wheels |-> {}]

WhlNoCall ==
    [package_dir |-> <<>>, output_dir |-> <<>>,
     oracle |-> [has_project |-> FALSE, build_ok |-> TRUE,
                 wheel |-> <<"p", "-", "1", ".", "w", "h", "l">>],
     before |-> EmptyFs, at_start |-> EmptyFs, result |-> {}]

\* Before the first call: the package directories exist, with or without
\* dist/ and build/ of an earlier build; one output directory may exist and
\* hold a wheel of an earlier build.
WhlInit ==
    /\ \E out \in OutputDirs, n \in WheelNames,
          old \in SUBSET {Append(RepoDir, DistName),
                          Append(RepoDir, BuildName)},
          has \in {"none", "dir", "wheel"} :
          whlFs = [dirs |-> UNION {Prefixes(p) : p \in PackageDirs} \cup old
                            \cup (IF has = "none" THEN {} ELSE Prefixes(out)),
                   wheels |-> IF has = "wheel"
                              THEN {[dir |-> out, name |-> n, build |-> 0]}
                              ELSE {}]
    /\ whlLast = WhlNoCall
    /\ whlCalls = 0

WhlIdle ==
    /\ whlFs = EmptyFs
    /\ whlLast = WhlNoCall
    /\ whlCalls = 0

WhlNext == BuildWheelCall

-----------------------------------------------------------------------------
(* scripts/build_all.py: main *)

\* A run of main: the steps it has taken in order and the value it returned
\* (-1 while it runs).
BaStart == [steps |-> <<>>, ret |-> -1]

BaDone(b) == b.ret # -1

\* check_prerequisites(base_dir): an issue is a tool whose start raises, or
\* the missing virtual environment.
CheckPrerequisites(o) == ~o.tool_missing /\ baVenv

\* if not check_prerequisites(base_dir): return 1
Prerequisites(b, o) ==
    IF CheckPrerequisites(o)
    THEN [b EXCEPT !.steps = Append(@, <<"check_prerequisites">>)]
    ELSE [b EXCEPT !.steps = Append(@, <<"check_prerequisites">>), !.ret = 1]

\* The command of the pin step.
PinCmd(a) ==
    IF a.latest_tag
    THEN <<"tools/pin_superset.py", "--write-version", "--latest-tag">>
    ELSE IF a.sha # "<None>" /\ a.sha # ""
    THEN <<"tools/pin_superset.py", "--write-version", "--sha", a.sha>>
    ELSE <<"tools/pin_superset.py", "--write-version">>

\* ret = run(cmd, cwd=base_dir); if ret != 0: return ret
BaRun(b, cmd, code) ==
    IF code # 0
    THEN [b EXCEPT !.steps = Append(@, cmd), !.ret = code]
    ELSE [b EXCEPT !.steps = Append(@, cmd)]

\* Step 1: if not args.skip_pin: ...
PinStep(b, a, o) ==
    IF BaDone(b) \/ a.skip_pin THEN b ELSE BaRun(b, PinCmd(a), o.pin)

\* superset-src after the pin step: a pin that exits with 0 leaves a checkout.
SrcExistsAfterPin(a, o) ==
    baSrcExists \/ (CheckPrerequisites(o) /\ ~a.skip_pin /\ o.pin = 0)

\* if not superset_src.exists(): return 1
SrcCheck(b, a, o) ==
    IF BaDone(b) \/ SrcExistsAfterPin(a, o) THEN b ELSE [b EXCEPT !.ret = 1]

\* Step 2: tools/build_superset.py [--skip-frontend]
BuildStep(b, a, o) ==
    IF BaDone(b) THEN b
    ELSE BaRun(b,
               IF a.skip_frontend
               THEN <<"tools/build_superset.py", "--skip-frontend">>
               ELSE <<"tools/build_superset.py">>,
               o.build)

\* Step 3: if not args.skip_wheels: tools/build_wheels.py
WheelsStep(b, a, o) ==
    IF BaDone(b) \/ a.skip_wheels THEN b
    ELSE BaRun(b, <<"tools/build_wheels.py">>, o.wheels)

\* Step 4: on Windows, unless --skip-exe and if build_exe.ps1 exists; a
\* failure is reported and not returned.
ExeStep_Fatal(b, a, o) ==
    IF BaDone(b) \/ o.os_name # "nt" \/ a.skip_exe \/ ~o.exe_script THEN b
    ELSE BaRun(b, <<"tools/build_exe.ps1">>, o.exe)

ExeStep(b, a, o) ==
    IF BaDone(b) \/ o.os_name # "nt" \/ a.skip_exe \/ ~o.exe_script THEN b
    ELSE [b EXCEPT !.steps = Append(@, <<"tools/build_exe.ps1">>)]

\* Step 5: the verification notice, unless --skip-verify
VerifyStep(b, a) ==
    IF BaDone(b) \/ a.skip_verify THEN b
    ELSE [b EXCEPT !.steps = Append(@, <<"verification notice">>)]

\* The summary and return 0.
BaEnd(b) == IF BaDone(b) THEN b ELSE [b EXCEPT !.ret = 0]

\* main()
BuildAllMain(a, o) ==
    BaEnd(
        VerifyStep(
            ExeStep(
                WheelsStep(
                    BuildStep(
                        SrcCheck(
                            PinStep(Prerequisites(BaStart, o), a, o),
                            a, o),
                        a, o),
                    a, o),
                a, o),
            a))

\* The options of build_all.py.
BaArgs ==
    [skip_pin : BOOLEAN, skip_frontend : BOOLEAN, skip_wheels : BOOLEAN,
     skip_exe : BOOLEAN, skip_verify : BOOLEAN, latest_tag : BOOLEAN,
     sha : {"<None>", "abc123"}]

\* Whether a tool of the prerequisites cannot be started, the exit codes of
\* the four scripts, os.name and whether tools/build_exe.ps1 exists.
BaOracles ==
    [tool_missing : BOOLEAN, pin : {0, 2}, build : {0, 1}, wheels : {0, 1},
     exe : {0, 1}, os_name : {"nt", "posix"}, exe_script : BOOLEAN]

MaxBuildAllCalls == 1

BaFrame == UNCHANGED <<tagVars, cfgVars, pinVars, homeVars, rtVars, cliVars, bsVars, whlVars>>

\* python scripts/build_all.py [options]
BuildAll ==
    /\ baCalls < MaxBuildAllCalls
    /\ baCalls' = baCalls + 1
    /\ UNCHANGED baVenv
    /\ BaFrame
    /\ \E a \in BaArgs, o \in BaOracles :
          /\ baSrcExists' = SrcExistsAfterPin(a, o)
          /\ baLast' = [args |-> a, oracle |-> o,
                        run |-> BuildAllMain(a, o),
                        src_before |-> baSrcExists]

BaNoCall ==
    [args |-> [skip_pin |-> FALSE, skip_frontend |-> FALSE,
               skip_wheels |-> FALSE, skip_exe |-> FALSE,
               skip_verify |-> FALSE, latest_tag |-> FALSE, sha |-> "<None>"],
     oracle |-> [tool_missing |-> FALSE, pin |-> 0, build |-> 0, wheels |-> 0,
                 exe |-> 0, os_name |-> "posix", exe_script |-> FALSE],
     run |-> BaStart, src_before |-> FALSE]

BaInit ==
    /\ baSrcExists \in BOOLEAN
    /\ baVenv \in BOOLEAN
    /\ baLast = BaNoCall
    /\ baCalls = 0

BaIdle ==
    /\ baSrcExists = FALSE
    /\ baVenv = FALSE
    /\ baLast = BaNoCall
    /\ baCalls = 0

BaNext == BuildAll

-----------------------------------------------------------------------------
(* Specifications *)

InitPin ==
    PinInit /\ TagIdle /\ CfgIdle /\ HomeIdle /\ RtIdle /\ CliIdle /\ BsIdle /\ WhlIdle /\ BaIdle

SpecPin == InitPin /\ [][PinNext]_vars

InitTag ==
    TagInit /\ CfgIdle /\ PinIdle /\ HomeIdle /\ RtIdle /\ CliIdle /\ BsIdle /\ WhlIdle /\ BaIdle

SpecTag == InitTag /\ [][TagNext]_vars

InitConfig ==
    CfgInit /\ TagIdle /\ PinIdle /\ HomeIdle /\ RtIdle /\ CliIdle /\ BsIdle /\ WhlIdle /\ BaIdle

SpecConfig == InitConfig /\ [][CfgNext]_vars

InitHome ==
    HomeInit /\ TagIdle /\ CfgIdle /\ PinIdle /\ RtIdle /\ CliIdle /\ BsIdle /\ WhlIdle /\ BaIdle

SpecHome == InitHome /\ [][HomeNext]_vars

InitRuntime ==
    RtInit /\ TagIdle /\ CfgIdle /\ PinIdle /\ HomeIdle /\ CliIdle /\ BsIdle /\ WhlIdle /\ BaIdle

SpecRuntime == InitRuntime /\ [][RtNext]_vars

InitCli ==
    CliInit /\ TagIdle /\ PinIdle /\ HomeIdle /\ BsIdle /\ WhlIdle /\ BaIdle

SpecCli == InitCli /\ [][CliNext]_vars

InitBuildSuperset ==
    BsInit /\ TagIdle /\ CfgIdle /\ PinIdle /\ HomeIdle /\ RtIdle /\ CliIdle /\ WhlIdle /\ BaIdle

SpecBuildSuperset == InitBuildSuperset /\ [][BsNext]_vars

InitWheels ==
    WhlInit /\ TagIdle /\ CfgIdle /\ PinIdle /\ HomeIdle /\ RtIdle /\ CliIdle /\ BsIdle /\ BaIdle

SpecWheels == InitWheels /\ [][WhlNext]_vars

InitBuildAll ==
    BaInit /\ TagIdle /\ CfgIdle /\ PinIdle /\ HomeIdle /\ RtIdle /\ CliIdle /\ BsIdle /\ WhlIdle

SpecBuildAll == InitBuildAll /\ [][BaNext]_vars

-----------------------------------------------------------------------------
(* Properties of pin_superset.main *)

\* The positions of gitlog that hold a git checkout <ref>.
CheckoutIdx == {i \in 1..Len(gitlog) : gitlog[i].cmd = "checkout"}

FetchCmds == {"fetch_all", "fetch_unshallow", "fetch_deep", "fetch_ref"}

Resolved == pc \in {"m_record", "m_write", "done"}

\* C1: main applies exactly one resolution policy per run, in the order
\* --sha, then --latest-tag, then the branch; when --sha is given neither
\* get_latest_tag nor update_repo is invoked, and when --latest-tag is used
\* update_repo is not invoked.
C1_OnePolicyInOrder ==
    /\ Len(policy) <= 1
    /\ Resolved => Len(policy) = 1
    /\ args.sha # NoneStr =>
          /\ policy \in {<<>>, <<"sha">>}
          /\ "get_latest_tag" \notin calls
          /\ "update_repo" \notin calls
    /\ (args.sha = NoneStr /\ args.latest_tag) =>
          /\ policy \in {<<>>, <<"latest_tag">>}
          /\ "update_repo" \notin calls
    /\ (args.sha = NoneStr /\ ~args.latest_tag) =>
          policy \in {<<>>, <<"branch">>}

\* C1, amended: as C1, with "--sha is given" read as "--sha is given and not
\* empty": an empty --sha is passed over like an absent one. The policy
\* entered is the one that checks out: checkout_ref(args.sha), or
\* get_latest_tag and checkout_ref(tag), or update_repo(branch).
C1_OnePolicyNonEmptySha ==
    /\ Len(policy) <= 1
    /\ Resolved => Len(policy) = 1
    /\ Truthy(args.sha) =>
          /\ policy \in {<<>>, <<"sha">>}
          /\ "get_latest_tag" \notin calls
          /\ "update_repo" \notin calls
          /\ Resolved => (ref = args.sha /\ "checkout_ref" \in calls)
    /\ (~Truthy(args.sha) /\ args.latest_tag) =>
          /\ policy \in {<<>>, <<"latest_tag">>}
          /\ "update_repo" \notin calls
          /\ Resolved =>
                /\ {"get_latest_tag", "checkout_ref"} \subseteq calls
                /\ ref = tagRes
    /\ (~Truthy(args.sha) /\ ~args.latest_tag) =>
          /\ policy \in {<<>>, <<"branch">>}
          /\ "get_latest_tag" \notin calls
          /\ "checkout_ref" \notin calls
          /\ Resolved =>
                /\ "update_repo" \in calls
                /\ branch = IF Truthy(args.branch) THEN args.branch
                            ELSE repo.cur

\* C1 witness: --sha and --latest-tag are both given, and the run pinned
\* the --sha ref.
C1_Witness ==
    /\ pc = "done"
    /\ Truthy(args.sha) /\ args.latest_tag
    /\ policy = <<"sha">>
    /\ repo.head = Resolve(repo, args.sha)

\* checkout_ref has returned to main.
CR_Returned == pc \in {"m_sha_label", "m_tag_label"}

CR_Raised == pc = "raised" /\ exc.msg = "Failed to checkout ref"

\* The commands checkout_ref runs between its two checkouts: fetch --all,
\* the fetches of ensure_full_history, and the fetch of the ref.
CR_RetrySequence ==
    LET first == MinOf(CheckoutIdx)
        last == MaxOf(CheckoutIdx)
    IN  /\ Cardinality(CheckoutIdx) = 2
        /\ last = Len(gitlog)
        /\ ~gitlog[first].ok
        /\ gitlog[first + 1].cmd = "fetch_all"
        /\ gitlog[last - 1].cmd = "fetch_ref"
        /\ last - 1 > first + 1
        /\ \A i \in (first + 2)..(last - 2) :
              gitlog[i].cmd \in {"fetch_unshallow", "fetch_deep"}

\* C2: checkout_ref returns without any fetch when the first checkout
\* succeeds; otherwise it fetches (--all --tags, ensure_full_history, the ref),
\* retries the checkout exactly once, and raises RuntimeError naming the ref
\* if and only if the second checkout fails too. It never returns normally
\* while the ref is not checked out.
C2_CheckoutRefRetriesOnce ==
    /\ CR_Returned =>
          /\ gitlog[Len(gitlog)] = [cmd |-> "checkout", ok |-> TRUE]
          /\ repo.head # 0 /\ repo.head = Resolve(repo, ref)
          /\ \/ Cardinality(CheckoutIdx) = 1
             \/ CR_RetrySequence
    /\ CR_Raised =>
          /\ exc.type = "RuntimeError" /\ exc.ref = ref
          /\ CR_RetrySequence
          /\ ~gitlog[Len(gitlog)].ok
    /\ (policy \in {<<"sha">>, <<"latest_tag">>}
        /\ Cardinality(CheckoutIdx) = 2
        /\ ~gitlog[MaxOf(CheckoutIdx)].ok) => CR_Raised

\* C2 witness: the first checkout failed and the retry, after the fetches,
\* succeeded.
C2_Witness ==
    /\ CR_Returned
    /\ Cardinality(CheckoutIdx) = 2
    /\ \E i \in 1..Len(gitlog) : gitlog[i] = [cmd |-> "fetch_ref", ok |-> TRUE]

\* C3: in branch mode no commit older than the --scan-limit newest commits
\* of the branch is ever pinned.
C3_PinnedWithinScanLimit ==
    (pc = "m_branch_label") =>
        repo.head > repo.origin[branch] - args.scan_limit

\* C4: when update_repo returns, HEAD is the newest commit of
\* origin/<branch>, and that commit is the one recorded as pinned.
C4_HeadIsBranchTip ==
    /\ (pc = "m_branch_label") => repo.head = repo.origin[branch]
    /\ (pc = "done" /\ policy = <<"branch">>) =>
           sha = ShaOf(repo.origin[branch])

\* C5: with --write-version and a successful resolution, the manifest
\* records HEAD as superset_sha and the label of the policy used as
\* superset_branch (the first 12 characters of --sha, the latest tag, or the
\* branch name); the JSON and the Markdown file hold the same data.
C5_ManifestRecordsResolution ==
    (pc = "done" /\ args.write_version) =>
        /\ json.written /\ md.written
        /\ json.superset_sha = ShaOf(repo.head)
        /\ policy = <<"sha">> =>
              json.superset_branch = Take(args.sha, 12)
        /\ policy = <<"latest_tag">> =>
              /\ json.superset_branch = ref
              /\ json.superset_branch \in repo.tags
        /\ policy = <<"branch">> =>
              /\ json.superset_branch = repo.cur
              /\ Truthy(args.branch) => json.superset_branch = args.branch
        /\ md.rebuild_sha = json.superset_sha
        /\ md.branch_cell = json.superset_branch
        /\ md.sha_cell = Take(json.superset_sha, 12)

\* C5 witness: a run with --sha <full object name> --write-version, whose
\* label is shorter than the argument.
C5_Witness ==
    /\ pc = "done" /\ args.write_version
    /\ policy = <<"sha">>
    /\ Len(args.sha) > 12
    /\ json.superset_branch # args.sha

\* C6: a run that follows the rebuild instruction of an earlier run
\* (--sha S, S the full recorded superset_sha) ends with HEAD = S and, with
\* --write-version, records S again; it fails only when S is not in the
\* checkout and a fetch failed; the instruction names the full S.
C6_PinReproducible ==
    /\ md.written =>
          /\ md.rebuild_sha = json.superset_sha
          /\ Len(md.rebuild_sha) = ShaLen
    /\ rerun =>
          /\ Len(args.sha) = ShaLen
          /\ Resolved => ShaOf(repo.head) = args.sha
          /\ (pc = "done" /\ args.write_version) =>
                json.superset_sha = args.sha
          /\ pc = "raised" =>
                /\ \A c \in repo.objs : ShaOf(c) # args.sha
                /\ \E i \in 1..Len(gitlog) :
                      gitlog[i].cmd \in FetchCmds /\ ~gitlog[i].ok

\* C6 witness: the rebuild ran on a shallow checkout that did not hold S,
\* deepened it, and recorded S again.
C6_Witness ==
    /\ rerun /\ pc = "done" /\ args.write_version
    /\ repo.head < NCommits
    /\ \E i \in 1..Len(gitlog) :
          gitlog[i] = [cmd |-> "fetch_unshallow", ok |-> TRUE]
    /\ json.superset_sha = args.sha

-----------------------------------------------------------------------------
(* Properties of get_latest_tag *)

AllDigits(s) == s # <<>> /\ \A i \in 1..Len(s) : s[i] \in Digits

\* A name of exactly three dot-separated decimal numbers.
IsXYZ(s) ==
    LET parts == Split(s, ".")
    IN  Len(parts) = 3 /\ \A k \in 1..3 : AllDigits(parts[k])

\* C7: get_latest_tag returns the first tag, in descending version order,
\* whose name is exactly X.Y.Z; a tag with a prefix or suffix is never
\* returned; it raises RuntimeError('No valid release tag found') if and only
\* if no tag has that form.
C7_LatestTag ==
    LET order == SortDesc(tagRepo) IN
    /\ tagPc = "returned" =>
          /\ IsXYZ(tagRes)
          /\ \E i \in 1..Len(order) :
                /\ order[i] = tagRes
                /\ \A j \in 1..(i - 1) : ~IsXYZ(order[j])
    /\ tagPc = "raised" =>
          /\ tagErr = "No valid release tag found"
          /\ \A t \in tagRepo : ~IsXYZ(t)
    /\ (tagPc = "loop" /\ \A t \in tagRepo : ~IsXYZ(t)) => tagRes = <<>>

\* C7 witness: a tag with a suffix sorts before the release tag, is skipped,
\* and the release tag is returned.
C7_Witness ==
    /\ tagPc = "returned"
    /\ tagIdx > 1
    /\ \E t \in tagRepo : ~IsXYZ(t) /\ VersionCmp(t, tagRes) > 0
    /\ \E t \in tagRepo : IsXYZ(t) /\ VersionCmp(t, tagRes) < 0

-----------------------------------------------------------------------------
(* Properties of generate_config *)

AllDirsExist == \A n \in DirSet : dirs[n] = "dir"

\* C8: generate_config(home_dir) with force=False and an existing
\* superset_config.py returns and leaves the file, .secret_key and the
\* directories unchanged, whatever the file holds and however often it is
\* called.
C8_NotRegenerated ==
    [][(cfgCalls' = cfgCalls + 1 /\ ~cfgLast'.force /\ cfg # AbsentFile) =>
          /\ cfgLast'.result = "returned"
          /\ cfg' = cfg
          /\ secretFile' = secretFile
          /\ dirs' = dirs
          /\ homeExists' = homeExists]_vars

\* C8 witness: a repeated call without force on a file holding other content.
C8_Witness ==
    /\ cfgCalls = 2
    /\ ~cfgLast.force /\ cfgLast.existed /\ cfgLast.result = "returned"
    /\ cfg = ModifiedContent

\* C9: generate_config(home_dir, force=True) overwrites the file with the
\* generated configuration, which holds the application name and is
\* determined by the secret key alone, not by what the file held.
C9_ForceOverwrites ==
    [][(cfgCalls' = cfgCalls + 1 /\ cfgLast'.force
        /\ cfgLast'.result = "returned") =>
          /\ cfg'[1] = "# pyPASreporterGUI Superset Configuration"
          /\ cfg' = ConfigContent(IF Truthy(envKey) THEN envKey
                                  ELSE Strip(secretFile'))]_vars

\* C9 witness: a forced call on an existing file returned.
C9_Witness ==
    /\ cfgLast.force /\ cfgLast.existed /\ cfgLast.result = "returned"
    /\ cfg # ModifiedContent /\ cfg # AbsentFile

\* C10: after generate_config returns, for any force and any prior state of
\* home_dir, superset_config.py and the six directories exist.
C10_FileAndDirsExist ==
    cfgLast.result = "returned" => (cfg # AbsentFile /\ AllDirsExist)

\* C10, amended: after generate_config returns the file exists; the six
\* directories exist when the call generated the file (force, or no file
\* before).
C10_DirsExistWhenGenerated ==
    cfgLast.result = "returned" =>
        /\ cfg # AbsentFile
        /\ (cfgLast.force \/ ~cfgLast.existed) => AllDirsExist

\* C10 witness: a call on a home directory without the file and without the
\* directories returned.
C10_Witness ==
    /\ cfgLast.result = "returned" /\ ~cfgLast.existed
    /\ cfgCalls = 1
    /\ AllDirsExist

-----------------------------------------------------------------------------
(* Properties of runtime.get_superset_home *)

\* The path the variable gives, "~" standing for the home directory.
GivenPath == ExpandUser(PathOf(homeEnv), userHome)

\* An absolute path with no ".." component and no symbolic link on it.
PlainPath(p, l) ==
    /\ IsAbsolute(p)
    /\ \A i \in 1..Len(p) : p[i] # DotDot
    /\ \A q \in Prefixes(p) : ~IsLink(q, l)

-----------------------------------------------------------------------------
(* Properties of the frozen-mode functions of runtime.py *)

\* <_MEIPASS>/superset
BundleSupersetDir == <<"<_MEIPASS>", "superset">>

\* The step is a top-level call of the function op.
IsCallOf(op) == rtCalls' = rtCalls + 1 /\ rtLast'.op = op

\* The fields of the process and the database are what they were.
ProcessUnchanged ==
    /\ rt'.APP_DIR = rt.APP_DIR
    /\ rt'.directory = rt.directory
    /\ rt'.frozen_app = rt.frozen_app
    /\ rt'.napps = rt.napps
    /\ rt'.returned = rt.returned
    /\ rt'.blueprints = rt.blueprints
    /\ rt'.users = rt.users
    /\ rt'.roles = rt.roles

\* The positions of the trace that hold the event ev of the function fn.
Events(fn, ev) ==
    {i \in 1..Len(rt.trace) : rt.trace[i].fn = fn /\ rt.trace[i].ev = ev}

\* C12: in frozen mode (sys.frozen true and sys._MEIPASS present)
\* patch_superset_paths_for_frozen sets APP_DIR to <_MEIPASS>/superset and
\* raises RuntimeError exactly when <_MEIPASS>/superset/migrations does not
\* exist; when not frozen it changes nothing and never raises.
C12_PatchPathsFrozenOnly ==
    [][IsCallOf("patch_superset_paths_for_frozen") =>
          IF sysFrozen /\ hasMeipass
          THEN /\ rt'.APP_DIR = BundleSupersetDir
               /\ rt'.exc \in {"none", "RuntimeError"}
               /\ rt'.exc = "RuntimeError" <=> "migrations" \notin bundle
          ELSE /\ ProcessUnchanged
               /\ rt'.exc = "none"]_vars

\* A frozen process without the bundled migrations: the call set APP_DIR and
\* raised RuntimeError.
C12_Witness ==
    /\ rtLast.op = "patch_superset_paths_for_frozen"
    /\ sysFrozen /\ hasMeipass
    /\ "migrations" \notin bundle
    /\ rt.APP_DIR = BundleSupersetDir
    /\ rt.exc = "RuntimeError"

\* C13: over any sequence of calls to get_frozen_app (by the frozen commands
\* and the frozen server start) create_app completes at most once, and every
\* call that returns yields the same application object.
C13_OneFrozenApp ==
    /\ rt.napps <= 1
    /\ Cardinality(rt.returned) <= 1
    /\ rt.returned \subseteq {rt.frozen_app}
    /\ rt.frozen_app # 0 => rt.napps = 1 /\ rt.frozen_app = 1

\* A later top-level call got the application of an earlier one: its
\* get_frozen_app returned without calling create_app.
C13_Witness ==
    /\ rtCalls >= 2
    /\ Events("get_frozen_app", "return") # {}
    /\ Events("create_app", "call") = {}
    /\ rt.returned = {1}
    /\ rt.napps = 1

\* C14: in get_frozen_app the path patch completes before create_app is
\* called and patch_migrate_directory runs after create_app returns; every
\* application get_frozen_app has returned in frozen mode, on the first or a
\* later call, has migrate.directory at <superset dir>/migrations.
C14_MigrateDirPatched ==
    /\ \A i \in Events("create_app", "call") :
           \E j \in Events("patch_superset_paths_for_frozen", "return") : j < i
    /\ \A i \in Events("patch_migrate_directory", "call") :
           \E j \in Events("create_app", "return") : j < i
    /\ \A i \in Events("create_app", "return") :
           \E j \in Events("patch_migrate_directory", "return") : i < j
    /\ (sysFrozen /\ hasMeipass /\ Events("get_frozen_app", "return") # {}) =>
           rt.directory = Append(BundleSupersetDir, "migrations")
    /\ (sysFrozen /\ hasMeipass /\ rt.returned # {}) =>
           rt.directory = Append(BundleSupersetDir, "migrations")

\* A frozen process in which a top-level call created the application: the
\* patch ran after create_app and migrate.directory is the bundle's.
C14_Witness ==
    /\ sysFrozen /\ hasMeipass
    /\ Events("create_app", "return") # {}
    /\ Events("patch_migrate_directory", "return") # {}
    /\ rt.returned = {1}
    /\ rt.directory = Append(BundleSupersetDir, "migrations")

\* Something failed during the command: a call raised, or add_user returned
\* a falsy value.
CommandFailed ==
    \/ \E i \in 1..Len(rt.trace) : rt.trace[i].ev = "raise"
    \/ \E i \in Events("add_user", "return") : rt.trace[i].arg = <<"1">>

\* C15: run_superset_command(args, check=True) never returns a result whose
\* returncode is non-zero, in normal and in frozen mode; with check=False no
\* failure escapes as an exception, it is reported as a result with a
\* non-zero returncode.
C15_CheckRaisesOnNonZero ==
    rtLast.op = "run_superset_command" =>
        /\ (rtLast.check /\ rt.exc = "none") => rt.returncode = 0
        /\ ~rtLast.check =>
              /\ rt.exc = "none"
              /\ CommandFailed => rt.returncode # 0

\* The user name is in the list of users.
UserExists(users, username) ==
    \E i \in 1..Len(users) : users[i] = username

\* No user name is twice in the list of users.
NoDuplicates(users) ==
    \A i, j \in 1..Len(users) : users[i] = users[j] => i = j

\* C16 (as stated): create_admin_user never raises to its caller; in frozen
\* mode, when a user with the requested name exists, add_user is not called
\* and the command result has returncode 0; no user is created twice.
C16_AdminCreatedOnce ==
    [][IsCallOf("create_admin_user") =>
          /\ rt'.exc = "none"
          /\ (sysFrozen /\ hasMeipass /\ UserExists(rt.users, rtLast'.args[1]))
                => /\ \A i \in 1..Len(rt'.trace) : rt'.trace[i].fn # "add_user"
                   /\ rt'.users = rt.users
                   /\ rt'.returncode = 0
          /\ (sysFrozen /\ hasMeipass /\ NoDuplicates(rt.users))
                => NoDuplicates(rt'.users)]_vars

\* C16 (amended): as stated, but the returncode is 0 when the user exists
\* only if get_frozen_app gave the application; when it raised, the
\* returncode is 1 (and still nothing is added and nothing is raised).
C16_AdminCreatedOnceGivenApp ==
    [][IsCallOf("create_admin_user") =>
          /\ rt'.exc = "none"
          /\ (sysFrozen /\ hasMeipass /\ UserExists(rt.users, rtLast'.args[1]))
                => /\ \A i \in 1..Len(rt'.trace) : rt'.trace[i].fn # "add_user"
                   /\ rt'.users = rt.users
                   /\ rt'.returncode = IF rt'.frozen_app # 0 THEN 0 ELSE 1
          /\ (sysFrozen /\ hasMeipass /\ NoDuplicates(rt.users))
                => NoDuplicates(rt'.users)
          /\ (sysFrozen /\ hasMeipass /\ rt'.users # rt.users)
                => /\ rt'.users = Append(rt.users, rtLast'.args[1])
                   /\ rt'.returncode = 0]_vars

\* A frozen process where an earlier call created the user "bob" and
\* create_admin_user for "bob" then found it: no add_user, returncode 0.
C16_Witness ==
    /\ sysFrozen /\ hasMeipass
    /\ rtLast.op = "create_admin_user"
    /\ rtLast.args = <<"bob">>
    /\ UserExists(rt.users, "bob")
    /\ \A i \in 1..Len(rt.trace) : rt.trace[i].fn # "add_user"
    /\ Events("find_user", "return") # {}
    /\ rt.returncode = 0
    /\ rt.exc = "none"

-----------------------------------------------------------------------------
(* Properties of the commands of cli.py *)

\* The positions of the trace where run_superset_command is called with the
\* arguments a.
CommandCalls(a) ==
    {i \in 1..Len(rt.trace) :
        /\ rt.trace[i].fn = "run_superset_command"
        /\ rt.trace[i].ev = "call"
        /\ rt.trace[i].arg = a}

\* The positions where a Superset command line ends with exit code 0.
CommandSuccesses ==
    {i \in 1..Len(rt.trace) :
        /\ rt.trace[i].fn \in {"subprocess.run", "_run_superset_command_frozen"}
        /\ rt.trace[i].ev = "return"
        /\ rt.trace[i].arg = <<"0">>}

\* The command called at position i exited with 0 before position j, and no
\* other command was called in between.
SucceededBetween(i, j) ==
    \E k \in CommandSuccesses :
        /\ i < k /\ k < j
        /\ \A m \in (i + 1)..(k - 1) :
              ~(rt.trace[m].fn = "run_superset_command"
                /\ rt.trace[m].ev = "call")

\* Every position of A comes before every position of B.
Before(A, B) == \A i \in A, j \in B : i < j

\* The three initialization steps are each taken at most once and in the
\* order db upgrade, init, create-admin; init only after db upgrade exited
\* with 0, create-admin only after init exited with 0; db upgrade only after
\* both variables are exported, which follows the return of generate_config,
\* which follows the return of ensure_home_dir.
InitOrder ==
    /\ Cardinality(CommandCalls(<<"db", "upgrade">>)) <= 1
    /\ Cardinality(CommandCalls(<<"init">>)) <= 1
    /\ Cardinality(Events("create_admin_user", "call")) <= 1
    /\ \A j \in Events("generate_config", "call") :
          \E i \in Events("ensure_home_dir", "return") : i < j
    /\ \A j \in Events("os.environ.__setitem__", "call") :
          \E i \in Events("generate_config", "return") : i < j
    /\ \A j \in CommandCalls(<<"db", "upgrade">>) :
          /\ Cardinality({i \in Events("os.environ.__setitem__", "return") :
                             i < j}) = 2
          /\ cfg # AbsentFile
    /\ \A j \in CommandCalls(<<"init">>) :
          \E i \in CommandCalls(<<"db", "upgrade">>) : SucceededBetween(i, j)
    /\ \A j \in Events("create_admin_user", "call") :
          \E i \in CommandCalls(<<"init">>) : SucceededBetween(i, j)

\* The initialization ran to its end: create_admin_user has returned.
Initialized == Events("create_admin_user", "return") # {}

\* The server was started: run_superset_server was called.
ServerCalls == Events("run_superset_server", "call")

\* None of db upgrade, init and create-admin was run: the only command line
\* is the one of the server.
NoInitCommand ==
    /\ Events("run_superset_command", "call") \subseteq CommandCalls(RunCmd)
    /\ Events("create_admin_user", "call") = {}
    /\ Events("db_upgrade", "call") = {}
    /\ Events("_init", "call") = {}
    /\ Events("add_user", "call") = {}

\* C17: run ensures the home directory, generates the configuration, exports
\* SUPERSET_CONFIG_PATH and SUPERSET_HOME, then (unless --no-init) runs db
\* upgrade, init and create-admin in that order, and only then starts the
\* server; init runs only after db upgrade succeeded, the server is never
\* started when db upgrade or init fails, and with --no-init none of the
\* three initialization commands is run.
C17_RunOrder ==
    cliLast.cmd = "run" =>
        /\ InitOrder
        /\ Cardinality(ServerCalls) <= 1
        /\ \A j \in ServerCalls :
              /\ Cardinality({i \in Events("os.environ.__setitem__", "return") :
                                 i < j}) = 2
              /\ ~cliLast.opts.no_init =>
                     \E i \in Events("create_admin_user", "return") : i < j
        /\ cliLast.opts.no_init => NoInitCommand
        /\ ~cliLast.opts.no_init /\ Events("generate_config", "return") # {}
              => CommandCalls(<<"db", "upgrade">>) # {}
        /\ ~cliLast.opts.no_init /\ ~Initialized => ServerCalls = {}

\* A run without --no-init that went through the three commands and started
\* the server in a frozen process.
C17_Witness ==
    /\ cliLast.cmd = "run"
    /\ ~cliLast.opts.no_init
    /\ IsFrozen
    /\ CommandCalls(<<"db", "upgrade">>) # {}
    /\ CommandCalls(<<"init">>) # {}
    /\ Initialized
    /\ ServerCalls # {}
    /\ cliLast.exit = 0

\* C18: init never calls run_superset_server; it runs db upgrade, init and
\* create-admin in that order once the configuration file exists; with
\* --force the file is rewritten before the migrations run.
C18_InitNoServer ==
    cliLast.cmd = "init" =>
        /\ ServerCalls = {}
        /\ Events("app.run", "call") = {}
        /\ CommandCalls(RunCmd) = {}
        /\ InitOrder
        /\ Events("generate_config", "return") # {}
              => CommandCalls(<<"db", "upgrade">>) # {}
        /\ cliLast.exit = 0 => Initialized
        /\ cliLast.opts.force /\ CommandCalls(<<"db", "upgrade">>) # {}
              => /\ cfgLast.force /\ cfgLast.wrote
                 /\ cfg = ConfigContent(envKey)

\* init --force over a configuration file the user had edited: the file was
\* rewritten, the three commands ran and the command ended normally.
C18_Witness ==
    /\ cliLast.cmd = "init"
    /\ cliLast.opts.force
    /\ cfgLast.existed /\ cfgLast.wrote
    /\ cfg = ConfigContent(envKey)
    /\ CommandCalls(<<"init">>) # {}
    /\ Initialized
    /\ cliLast.exit = 0

\* The step is one run of the command cmd.
IsCmd(cmd) == cliCalls' = cliCalls + 1 /\ cliLast'.cmd = cmd

\* A check of doctor failed: one of the four sanity checks, or in frozen mode
\* a required directory that is missing from the bundle.
SomeCheckFailed ==
    \/ cliLast.opts.superset # "ok"
    \/ cliLast.opts.duckdb # "42"
    \/ cliLast.opts.dialect # "found"
    \/ cliLast.opts.branding # "ok"
    \/ IsFrozen /\ \E n \in RequiredDirs : n \notin bundle

\* The outcome of the last run of doctor.
DoctorVerdict ==
    /\ cliLast.exit = 1 <=> SomeCheckFailed
    /\ cliLast.exit \in {0, 1}
    /\ cliLast.exit = 0 <=> Events("doctor", "return") # {}
    /\ Cardinality(Events("check", "call")) = 4
    /\ IF IsFrozen
       THEN {rt.trace[i].arg[1] : i \in Events("path.exists", "call")}
                = RequiredDirs
       ELSE Events("path.exists", "call") = {}

\* C19: doctor exits with status 1 exactly when a check failed (the Superset
\* application factory, the DuckDB engine, the DuckDB dialect entry point,
\* the branding blueprint, and in frozen mode each required directory of the
\* bundle); otherwise it returns normally.  The directories of the bundle are
\* looked at in frozen mode only, and no file and no database row changes.
C19_DoctorExit ==
    [][IsCmd("doctor") =>
          /\ DoctorVerdict'
          /\ UNCHANGED <<homeExists, cfg, secretFile, dirs, databases, bundle>>
          /\ rt'.users = rt.users
          /\ rt'.roles = rt.roles]_vars

\* doctor in a frozen process whose bundle lacks the migrations: the four
\* sanity checks passed and the exit status is 1.
C19_Witness ==
    /\ cliLast.cmd = "doctor"
    /\ cliLast.opts.superset = "ok"
    /\ cliLast.opts.duckdb = "42"
    /\ cliLast.opts.dialect = "found"
    /\ cliLast.opts.branding = "ok"
    /\ IsFrozen
    /\ "migrations" \notin bundle
    /\ Events("path.exists", "call") # {}
    /\ cliLast.exit = 1

\* The stems of the files of PathPool, as pathlib computes them.
ExpectedStem(s) ==
    IF s = <<"/", "d", "/", ".", "s", "a">> THEN <<".", "s", "a">>
    ELSE <<"s", "a">>

\* The display name add-duckdb uses for the options given.
ExpectedName(opts) ==
    IF opts.name \in {NoneStr, <<>>} THEN ExpectedStem(opts.path)
    ELSE opts.name

\* s ends with t.
HasSuffix(s, t) ==
    Len(t) <= Len(s) /\ SubSeq(s, Len(s) - Len(t) + 1, Len(s)) = t

\* No two rows have the same database_name.
DistinctNames(dbs) ==
    \A i, j \in 1..Len(dbs) :
        dbs[i].database_name = dbs[j].database_name => i = j

\* The step added exactly one row, the last one.
RowAdded ==
    /\ Len(databases') = Len(databases) + 1
    /\ SubSeq(databases', 1, Len(databases)) = databases

\* C20: add-duckdb attempts the registration (create_app) only when
\* superset_config.py exists in the home directory; it adds a row only when
\* no row has the same database_name, so the names stay distinct; the URI of
\* the row ends with ?read_only=true exactly when --read-only is given; the
\* name is the file's stem when --name is not given; the command ends
\* normally whatever the registration does.
C20_AddDuckdbOnce ==
    [][IsCmd("add-duckdb") =>
          /\ (\E i \in 1..Len(rt'.trace) : rt'.trace[i].fn = "create_app")
                 <=> cfg # AbsentFile
          /\ cliLast'.exit = 0
          /\ rt'.exc = "none"
          /\ databases' = databases \/ RowAdded
          /\ RowAdded =>
                /\ cfg # AbsentFile
                /\ \A i \in 1..Len(databases) :
                      databases[i].database_name
                          # ExpectedName(cliLast'.opts)
                /\ databases'[Len(databases')].database_name
                       = ExpectedName(cliLast'.opts)
                /\ HasSuffix(databases'[Len(databases')].sqlalchemy_uri,
                             ReadOnlyQuery)
                       <=> cliLast'.opts.read_only
          /\ DistinctNames(databases) => DistinctNames(databases')
          /\ UNCHANGED <<homeExists, cfg, secretFile, dirs>>]_vars

\* add-duckdb run a second time for a name that has a row: the query
\* returned, nothing was committed and there is still one row.
C20_Witness ==
    /\ cliCalls = 2
    /\ cliLast.cmd = "add-duckdb"
    /\ cliLast.opts.configured
    /\ cliLast.opts.name = NoneStr
    /\ Len(databases) = 1
    /\ databases[1].database_name = ExpectedName(cliLast.opts)
    /\ Events("query", "return") # {}
    /\ Events("commit", "call") = {}
    /\ cliLast.exit = 0

-----------------------------------------------------------------------------
(* Properties of build_superset.main *)

\* The commands of the build steps that the last run started (the
\* environment report, the frontend, the backend, the packages).
BuildStepsRun ==
    {i \in 1..Len(bsLast.run.cmds) : bsLast.run.cmds[i] # "git rev-parse HEAD"}

\* C21: with --verify-sha the build steps run only if HEAD of superset-src
\* equals the superset_sha recorded in VERSION_MATRIX.json, and otherwise
\* the script ends with status 1 before any of them; whatever the options,
\* main returns 1 without running a command when superset-src does not exist.
C21_VerifyShaGatesBuild ==
    bsCalls > 0 =>
        /\ bsLast.args.verify_sha =>
              IF bsMatrix.file = "present" /\ ActualSha = bsMatrix.superset_sha
              THEN TRUE
              ELSE BuildStepsRun = {} /\ BsExit(bsLast.run) = 1
        /\ ~bsRepoExists => bsLast.run.cmds = <<>> /\ bsLast.run.ret = 1

-----------------------------------------------------------------------------
(* Properties of build_wheels.build_wheel *)

\* The wheels of the file system fs that are in the directory d.
WheelsIn(fs, d) == {f \in fs.wheels : f.dir = d}

\* C22: build_wheel deletes neither the output directory nor a directory
\* that contains it: package_dir/dist is removed only if it is not
\* output_dir and no ancestor of it, and the wheels that were in output_dir
\* before the call are still there when the build command is started.
C22_OutputDirSurvivesCleaning ==
    whlCalls > 0 /\ whlLast.oracle.has_project =>
        /\ \A d \in Prefixes(whlLast.output_dir) :
              d \in whlLast.before.dirs => d \in whlLast.at_start.dirs
        /\ Append(whlLast.package_dir, DistName)
               \in whlLast.before.dirs \ whlLast.at_start.dirs
              => Append(whlLast.package_dir, DistName)
                     \notin Prefixes(whlLast.output_dir)
        /\ WheelsIn(whlLast.before, whlLast.output_dir)
               \subseteq WheelsIn(whlLast.at_start, whlLast.output_dir)

\* C23: after a build command that succeeded build_wheel returns a non-empty
\* list, exactly the wheel files the build wrote into output_dir, also when
\* a wheel of that file name was there before; it returns [] when the
\* package has neither pyproject.toml nor setup.py or when the build fails.
C23_ReturnsBuiltWheels ==
    whlCalls > 0 =>
        IF whlLast.oracle.has_project /\ whlLast.oracle.build_ok
        THEN whlLast.result
                 = {Append(whlLast.output_dir, whlLast.oracle.wheel)}
        ELSE whlLast.result = {}

-----------------------------------------------------------------------------
(* Properties of build_all.main *)

\* The place of a step in the pipeline.
StepRank(s) ==
    CASE s[1] = "check_prerequisites" -> 1
      [] s[1] = "tools/pin_superset.py" -> 2
      [] s[1] = "tools/build_superset.py" -> 3
      [] s[1] = "tools/build_wheels.py" -> 4
      [] s[1] = "tools/build_exe.ps1" -> 5
      [] s[1] = "verification notice" -> 6

\* The steps of the last run whose first word is name.
StepsNamed(name) ==
    {i \in 1..Len(baLast.run.steps) : baLast.run.steps[i][1] = name}

\* The step name was taken and was the last one: main returned code.
StoppedAt(name, code) ==
    /\ StepsNamed(name) = {Len(baLast.run.steps)}
    /\ baLast.run.ret = code
    /\ code # 0

\* The step name was taken and did not fail.
Passed(name, code) == StepsNamed(name) # {} /\ code = 0

\* C24: main takes the steps in the order prerequisites, pin, build
\* Superset, build wheels, build executable, verification notice; when the
\* prerequisites, the pin, the build or the wheels step fails main returns a
\* non-zero status at once and takes no later step; the exit code of the
\* executable build does not change the status; main returns 0 only if each
\* of pin, build and wheels that was not skipped returned 0.
C24_PipelineOrder ==
    baCalls > 0 =>
        /\ \A i, j \in 1..Len(baLast.run.steps) :
              i < j => StepRank(baLast.run.steps[i])
                           < StepRank(baLast.run.steps[j])
        /\ StepsNamed("check_prerequisites") = {1}
        /\ \/ StoppedAt("check_prerequisites", baLast.run.ret)
              /\ (baLast.oracle.tool_missing \/ ~baVenv)
           \/ ~baLast.oracle.tool_missing /\ baVenv
        /\ StepsNamed("tools/pin_superset.py") # {} =>
              \/ StoppedAt("tools/pin_superset.py", baLast.oracle.pin)
              \/ baLast.oracle.pin = 0
        /\ StepsNamed("tools/build_superset.py") # {} =>
              \/ StoppedAt("tools/build_superset.py", baLast.oracle.build)
              \/ baLast.oracle.build = 0
        /\ StepsNamed("tools/build_wheels.py") # {} =>
              \/ StoppedAt("tools/build_wheels.py", baLast.oracle.wheels)
              \/ baLast.oracle.wheels = 0
        /\ baLast.run.ret # -1
        /\ baLast.run.ret = 0 <=>
              /\ ~baLast.oracle.tool_missing /\ baVenv
              /\ baLast.args.skip_pin \/ baLast.oracle.pin = 0
              /\ baSrcExists
              /\ baLast.oracle.build = 0
              /\ baLast.args.skip_wheels \/ baLast.oracle.wheels = 0
        /\ baLast.run.ret = 0 =>
              /\ baLast.args.skip_pin
                    \/ Passed("tools/pin_superset.py", baLast.oracle.pin)
              /\ Passed("tools/build_superset.py", baLast.oracle.build)
              /\ baLast.args.skip_wheels
                    \/ Passed("tools/build_wheels.py", baLast.oracle.wheels)

\* A run on Windows that took the six steps: the executable build exited
\* with 1 and main returned 0.
C24_Witness ==
    /\ baCalls > 0
    /\ Len(baLast.run.steps) = 6
    /\ StepsNamed("tools/build_exe.ps1") # {}
    /\ baLast.oracle.exe = 1
    /\ baLast.run.ret = 0

-----------------------------------------------------------------------------
(* Properties of ensure_full_history *)

EfhPcs == {"efh_check", "efh_unshallow", "efh_deep"}

DeepeningCmds == {"fetch_unshallow", "fetch_deep"}

\* The step runs exactly one git command, cmd, with either outcome.
RunsOnly(cmd) ==
    \E ok \in BOOLEAN : gitlog' = Append(gitlog, [cmd |-> cmd, ok |-> ok])

\* The step returns to the caller of ensure_full_history, without raising.
EfhReturns ==
    /\ pc' = Head(stack) /\ stack' = Tail(stack)
    /\ pc' \notin EfhPcs \cup {"raised"}
    /\ exc' = exc

\* C25: ensure_full_history runs no git command when the repository is not
\* shallow and returns; when it is shallow it runs fetch --unshallow, and
\* runs the deep fetch only if the repository is still shallow afterwards;
\* these two fetches, each at most once, are all it runs; no outcome of a
\* fetch makes it raise; it returns after the deep fetch whether or not the
\* repository is still shallow.
C25_BestEffortDeepening ==
    [][/\ pc = "efh_check" =>
              /\ gitlog' = gitlog /\ repo' = repo
              /\ IF repo.shallow
                 THEN pc' = "efh_unshallow" /\ exc' = exc
                 ELSE EfhReturns
       /\ pc = "efh_unshallow" =>
              /\ RunsOnly("fetch_unshallow")
              /\ IF repo'.shallow
                 THEN pc' = "efh_deep" /\ exc' = exc
                 ELSE EfhReturns
       /\ pc = "efh_deep" =>
              /\ RunsOnly("fetch_deep")
              /\ EfhReturns
       /\ pc \notin EfhPcs =>
              \A i \in (Len(gitlog) + 1)..Len(gitlog') :
                  gitlog'[i].cmd \notin DeepeningCmds]_vars

\* ensure_full_history has returned to its caller after both fetches failed:
\* the repository is still shallow and nothing was raised.
C25_Witness ==
    /\ Len(gitlog) >= 2
    /\ gitlog[Len(gitlog) - 1] = [cmd |-> "fetch_unshallow", ok |-> FALSE]
    /\ gitlog[Len(gitlog)] = [cmd |-> "fetch_deep", ok |-> FALSE]
    /\ repo.shallow
    /\ pc \notin EfhPcs \cup {"raised"}
    /\ exc = NoExc

====
